--------------------------- MODULE ManagerProofs ---------------------------
(***************************************************************************)
(* Proofs about the Manager: for any tasks, any number of runs, restarts   *)
(* and failing writes, the trajectory store is append-only, and what run   *)
(* returns agrees with it: a verified result means that the verifier       *)
(* accepted every branch of every stage and that the file holds every step *)
(* and the verified outcome.                                               *)
(*                                                                         *)
(* The results depend on how a run got there, so the invariant follows it: *)
(* as long as no failure is known the file is the steps in memory (Clean), *)
(* and where a write failed the branch that met it cannot end without a    *)
(* failure (Doomed).                                                       *)
(*                                                                         *)
(* The last part is about what a run holds and spends meanwhile (LimitInv), *)
(* and about its sessions (SessionInv): a child reads what was sent in     *)
(* order, and at most one answer is under way, to the value sent last.      *)
(***************************************************************************)
EXTENDS MCManager, FiniteSetTheorems, TLAPS

Text == {"marker", "work", "cancelled"}
Files == {t.name : t \in Tasks} \X (0..(MaxRuns - 1))

Types ==
    /\ task \in Tasks /\ stage \in DOMAIN task.stages /\ next \in Nat
    /\ why \in Reason \union {None}
    /\ result \in [verdict : Verdict \union {"raised"}, stored : BOOLEAN] \union {None}
    /\ runs \in 0..MaxRuns /\ runSeq \in 0..runs
    /\ steps \in Seq(Text)
    /\ disk \in [Files -> Seq(Record) \union {None}]
    /\ wpc \in [Branch -> AgentPosition]
    /\ fail \in [Branch -> Reason \union {None, "raised"}]

(* A run that goes on, or names its trajectory, has its file.               *)
Working == pc \notin {"idle", "returned"}
Stored == result # None /\ result.stored
FileThere == Working \/ Stored => runSeq > 0 /\ file # None

(* record_outcome: a file never has two outcomes.                           *)
OneOutcome(f) ==
    \A i, j \in DOMAIN f : f[i].kind = "outcome" /\ f[j].kind = "outcome" => i = j
OneOutcomeEach == \A i \in Files : disk[i] # None => OneOutcome(disk[i])

DiskInv == Types /\ FileThere /\ OneOutcomeEach

-----------------------------------------------------------------------------
(* The file is the steps in memory.                                         *)
Clean == file = [i \in 1..Len(steps) |-> Step(i - 1)]

(* The branch will fail, whatever happens.                                  *)
Doomed(w) == fail[w] # None \/ wpc[w] = "refused"

Fits(p, r) ==
    /\ p \in {"start", "check", "ask", "persist", "reject", "request",
              "execute", "verify"} => r = None
    /\ p \in {"cancel", "close", "forced", "record", "last record"} => r \in Reason
    /\ p = "refused" => r \in Reason \union {None}

BranchOK(w) ==
    /\ wpc[w] = "off" <=> w \notin Branches
    /\ Fits(wpc[w], fail[w])
    /\ wpc[w] = "done" /\ fail[w] = None => <<stage, w>> \in accepted

StageAccepted == \A w \in Branches : <<stage, w>> \in accepted

\* A branch in run's own thread: its Outcome is there once it has failed.
OwnThread ==
    /\ ~Stage.group
    /\ result # None <=> wpc[1] = "done" /\ fail[1] \in Reason

Workers ==
    /\ Stage.group /\ result = None /\ next \in Branches
    /\ \A v \in Branches : v < next \/ pc = "end" => wpc[v] = "done"

BranchesInv ==
    /\ pc \in {"agent", "join", "end"} =>
          /\ why = None
          /\ \A w \in Branch : BranchOK(w)
          /\ Clean \/ \E w \in Branches : Doomed(w)
    /\ pc = "agent" => OwnThread
    /\ pc \in {"join", "end"} => Workers

-----------------------------------------------------------------------------
Untroubled == why = None /\ result = None /\ Clean

FlowInv ==
    /\ pc = "idle" => steps = <<>> /\ why = None /\ result = None /\ stage = 1
    /\ pc \in {"policy", "stage", "group", "mark", "handoff", "seal"} => Untroubled
    /\ pc \in {"group", "mark"} => Stage.group
    /\ pc = "mark" => next \in Branches
    /\ pc = "handoff" => StageAccepted /\ ~LastStage
    /\ pc = "seal" => StageAccepted /\ LastStage
    /\ pc = "account" /\ why = None /\ result = None =>
          Clean /\ StageAccepted /\ LastStage
    /\ pc = "record" => why \in Reason
    /\ pc = "returned" => result # None

EarlierAccepted ==
    \A i \in DOMAIN task.stages : i < stage =>
        \A w \in DOMAIN task.stages[i].branches : <<i, w>> \in accepted

(* The results, before they are returned too.                               *)
Agreed ==
    Stored =>
        \/ Corrupt(file)
        \/ \E i \in DOMAIN file : file[i] = OutcomeOf(result.verdict)

VerifiedLast ==
    result # None /\ result.verdict = "verified" =>
        /\ pc = "returned" /\ StageAccepted /\ LastStage
        /\ file = Append([i \in 1..Len(steps) |-> Step(i - 1)], OutcomeOf("verified"))

ResultInv == EarlierAccepted /\ Agreed /\ VerifiedLast
IInv == DiskInv /\ BranchesInv /\ FlowInv /\ ResultInv

-----------------------------------------------------------------------------
(* One record more: what a torn line does to the file.                      *)
LEMMA WrittenFacts ==
    ASSUME NEW s \in Seq(Record), NEW r \in Record
    PROVE  LET W == Written(s, r)
           IN  /\ W \in Seq(Record)
               /\ \A i \in DOMAIN s : s[i] # Torn => i \in DOMAIN W /\ W[i] = s[i]
               /\ Corrupt(s) => Corrupt(W)
               /\ OneOutcome(s) /\ (r.kind = "outcome" => ~has_outcome(s)) => OneOutcome(W)
               /\ Corrupt(W) \/ \E i \in DOMAIN W : W[i] = r
               /\ ~Corrupt(s) => W = Append(s, r)
<1> DEFINE W == Written(s, r)
<1>1. CASE ~EndsTorn(s)
  <2>1. W = Append(s, r)
    BY <1>1 DEF Written
  <2>2. /\ W \in Seq(Record) /\ Len(W) = Len(s) + 1 /\ W[Len(s) + 1] = r
        /\ DOMAIN s = 1..Len(s) /\ DOMAIN W = 1..(Len(s) + 1) /\ Len(s) \in Nat
        /\ \A i \in 1..Len(s) : W[i] = s[i]
    BY <2>1
  <2> HIDE DEF W
  <2>3. Corrupt(s) => Corrupt(W)
    BY <2>2 DEF Corrupt
  <2>4. OneOutcome(s) /\ (r.kind = "outcome" => ~has_outcome(s)) => OneOutcome(W)
    BY <2>2 DEF OneOutcome, has_outcome
  <2> QED BY <2>1, <2>2, <2>3, <2>4 DEF W
<1>2. CASE EndsTorn(s) /\ r = Torn
  <2>1. W = s /\ s # <<>> /\ s[Len(s)] = r
    BY <1>2 DEF Written, EndsTorn
  <2>2. Len(s) \in DOMAIN s
    BY <2>1
  <2> QED BY <2>1, <2>2, <1>2 DEF Corrupt
<1>3. CASE EndsTorn(s) /\ r # Torn
  <2>1. W = [s EXCEPT ![Len(s)] = Broken] /\ s # <<>> /\ s[Len(s)] = Torn
    BY <1>3 DEF Written, EndsTorn
  <2>2. /\ Len(s) \in Nat /\ DOMAIN s = 1..Len(s) /\ Len(s) \in DOMAIN s
        /\ Broken \in Record /\ Broken.kind # "outcome"
    BY <2>1 DEF Record, Broken
  <2>3. /\ W \in Seq(Record) /\ DOMAIN W = DOMAIN s /\ W[Len(s)] = Broken
        /\ \A i \in DOMAIN s : i # Len(s) => W[i] = s[i]
    BY <2>1, <2>2
  <2> HIDE DEF W
  <2>4. Corrupt(W) /\ Corrupt(s)
    BY <2>1, <2>2, <2>3 DEF Corrupt
  <2>5. OneOutcome(s) => OneOutcome(W)
    BY <2>2, <2>3 DEF OneOutcome
  <2>6. \A i \in DOMAIN s : s[i] # Torn => i \in DOMAIN W /\ W[i] = s[i]
    BY <2>1, <2>3
  <2> QED BY <2>3, <2>4, <2>5, <2>6 DEF W
<1> QED BY <1>1, <1>2, <1>3

(* A write of the run at id: no other file changes, and in this one every   *)
(* complete record stays.                                                   *)
Logged ==
    /\ disk' = [disk EXCEPT ![id] = disk'[id]]
    /\ disk'[id] \in Seq(Record) /\ OneOutcome(disk'[id])
    /\ \A j \in DOMAIN file : file[j] # Torn =>
          j \in DOMAIN disk'[id] /\ disk'[id][j] = file[j]
    /\ Corrupt(file) => Corrupt(disk'[id])

LEMMA AtFile ==
    ASSUME DiskInv, Working
    PROVE  id \in Files /\ file \in Seq(Record) /\ OneOutcome(file)
<1>1. id \in Files
  BY ManagerConstants DEF DiskInv, Types, FileThere, id, Files
<1>2. file \in Seq(Record)
  BY <1>1 DEF DiskInv, Types, FileThere, file
<1> QED BY <1>1, <1>2 DEF DiskInv, FileThere, OneOutcomeEach, file

LEMMA WriteLogged ==
    ASSUME DiskInv, Working, NEW r \in Record, NEW f \in Fault, write(r, f),
           r.kind = "outcome" => ~has_outcome(file)
    PROVE  /\ Logged
           /\ f = "none" => disk'[id] = Written(file, r)
<1>1. id \in Files /\ file \in Seq(Record) /\ OneOutcome(file)
  BY AtFile
<1>2. id \in DOMAIN disk
  BY <1>1 DEF DiskInv, Types
<1>3. disk' = [disk EXCEPT ![id] = disk'[id]]
  BY <1>2 DEF write
<1>4. \/ disk'[id] = Written(file, r) /\ f \in {"none", "unsynced"}
      \/ disk'[id] = Written(file, Torn) /\ f = "torn"
      \/ disk'[id] = file /\ f \in {"refused", "os"}
  BY <1>2 DEF write, Fault, file
<1>5. Torn \in Record /\ Torn.kind # "outcome"
  BY DEF Torn, Record
<1>6. ASSUME NEW q \in Record, q = r \/ q = Torn, disk'[id] = Written(file, q)
      PROVE  Logged
  <2> DEFINE W == Written(file, q)
  <2>1. /\ W \in Seq(Record) /\ OneOutcome(W)
        /\ \A i \in DOMAIN file : file[i] # Torn => i \in DOMAIN W /\ W[i] = file[i]
        /\ Corrupt(file) => Corrupt(W)
    BY <1>1, <1>5, <1>6, WrittenFacts
  <2> HIDE DEF W
  <2>2. disk'[id] = W
    BY <1>6 DEF W
  <2> QED BY <1>3, <2>1, <2>2 DEF Logged
<1>7. disk'[id] = file => Logged
  BY <1>1, <1>3 DEF Logged
<1> QED BY <1>4, <1>5, <1>6, <1>7

LEMMA SameLogged ==
    ASSUME DiskInv, Working, UNCHANGED disk
    PROVE  Logged
<1>1. id \in Files /\ file \in Seq(Record) /\ OneOutcome(file)
  BY AtFile
<1> QED BY <1>1 DEF Logged, file, DiskInv, Types

(* While the run is the same run, its writes keep what is known of the      *)
(* store.                                                                   *)
LEMMA LoggedDisk ==
    ASSUME DiskInv, Working, Logged, UNCHANGED <<task, runSeq>>
    PROVE  /\ disk' \in [Files -> Seq(Record) \union {None}]
           /\ id' = id /\ file' = disk'[id] /\ file' # None
           /\ OneOutcomeEach' /\ Kept
<1>1. id \in Files /\ file \in Seq(Record) /\ OneOutcome(file)
  BY AtFile
<1>2. /\ DOMAIN disk = Files /\ DOMAIN disk' = Files
      /\ disk'[id] \in Seq(Record) /\ OneOutcome(disk'[id])
      /\ \A i \in Files : i # id => disk'[i] = disk[i]
  BY <1>1 DEF DiskInv, Types, Logged
<1>3. disk' \in [Files -> Seq(Record) \union {None}]
  BY <1>1 DEF DiskInv, Types, Logged
<1>4. id' = id /\ file' = disk'[id] /\ file' # None
  BY <1>2, NoneIsNothing DEF id, file
<1>5. OneOutcomeEach'
  BY <1>2 DEF DiskInv, OneOutcomeEach
<1>6. Kept
  <2>1. disk'[id] # None
    BY <1>2, NoneIsNothing
  <2> QED BY <1>2, <2>1 DEF Kept, Logged, file
<1> QED BY <1>3, <1>4, <1>5, <1>6

LEMMA AppendLogged ==
    ASSUME DiskInv, Working, NEW what \in Text, NEW w, NEW f \in Fault,
           append(what, w, f), UNCHANGED <<task, runSeq>>
    PROVE  /\ Logged /\ steps' \in Seq(Text)
           /\ f = "none" /\ Clean => Clean'
<1>1. id \in Files /\ file \in Seq(Record) /\ OneOutcome(file)
  BY AtFile
<1>2. steps \in Seq(Text) /\ Len(steps) \in Nat
  BY DEF DiskInv, Types
<1>3. Step(Len(steps)) \in Record /\ Step(Len(steps)).kind # "outcome"
  BY <1>2 DEF Step, Record
<1>4. steps' = Append(steps, what) /\ write(Step(Len(steps)), f)
  BY DEF append
<1>5. Logged /\ (f = "none" => disk'[id] = Written(file, Step(Len(steps))))
  BY <1>3, <1>4, WriteLogged
<1>6. steps' \in Seq(Text) /\ Len(steps') = Len(steps) + 1
  BY <1>2, <1>4
<1>7. ASSUME f = "none", Clean
      PROVE  disk'[id] = [i \in 1..Len(steps') |-> Step(i - 1)]
  <2>1. ~Corrupt(file)
    BY <1>2, <1>7 DEF Clean, Corrupt, Step, Torn, Broken
  <2>2. disk'[id] = Append(file, Step(Len(steps)))
    BY <2>1, <1>1, <1>3, <1>5, <1>7, WrittenFacts
  <2>3. Len(file) = Len(steps) /\ \A i \in 1..Len(steps) : file[i] = Step(i - 1)
    BY <1>1, <1>2, <1>7 DEF Clean
  <2>4. /\ disk'[id] \in Seq(Record) /\ Len(disk'[id]) = Len(steps) + 1
        /\ \A i \in 1..Len(steps) : disk'[id][i] = file[i]
        /\ disk'[id][Len(steps) + 1] = Step(Len(steps))
    BY <2>2, <2>3, <1>1, <1>3
  <2>5. \A i \in 1..(Len(steps) + 1) : disk'[id][i] = Step(i - 1)
    BY <2>3, <2>4, <1>2
  <2>6. /\ DOMAIN disk'[id] = 1..(Len(steps) + 1)
        /\ disk'[id] = [i \in DOMAIN disk'[id] |-> disk'[id][i]]
    BY <2>4
  <2> QED BY <2>5, <2>6, <1>6
<1> QED BY <1>5, <1>6, <1>7, LoggedDisk DEF Clean

LEMMA OutcomeLogged ==
    ASSUME DiskInv, Working, NEW v \in Verdict, NEW f \in Fault,
           record_outcome(v, f), UNCHANGED <<task, runSeq>>
    PROVE  /\ Logged
           /\ f = "none" => \/ Corrupt(file')
                            \/ \E i \in DOMAIN file' : file'[i] = OutcomeOf(v)
           /\ f = "none" /\ Clean =>
                 file' = Append([i \in 1..Len(steps) |-> Step(i - 1)], OutcomeOf(v))
<1>1. file \in Seq(Record) /\ OutcomeOf(v) \in Record
  BY AtFile DEF OutcomeOf, Record
<1>2. CASE has_outcome(file)
  BY <1>2, SameLogged DEF record_outcome
<1>3. Clean => ~Corrupt(file)
  <2>1. ASSUME Clean PROVE ~Corrupt(file)
    <3>1. steps \in Seq(Text) /\ Len(steps) \in Nat
      BY DEF DiskInv, Types
    <3> QED BY <2>1, <3>1 DEF Clean, Corrupt, Step, Torn, Broken
  <2> QED BY <2>1
<1>4. CASE ~has_outcome(file)
  <2>1. Logged /\ (f = "none" => disk'[id] = Written(file, OutcomeOf(v)))
    BY <1>1, <1>4, WriteLogged DEF record_outcome
  <2> DEFINE r == OutcomeOf(v)
  <2>2. /\ Corrupt(Written(file, r)) \/ \E i \in DOMAIN Written(file, r) : Written(file, r)[i] = r
        /\ ~Corrupt(file) => Written(file, r) = Append(file, r)
    BY <1>1, WrittenFacts
  <2>3. file' = disk'[id]
    BY <2>1, LoggedDisk
  <2> QED BY <2>1, <2>2, <2>3, <1>3 DEF Clean
<1> QED BY <1>2, <1>4


-----------------------------------------------------------------------------
(* What every step of a branch comes to.  It ends only with a verdict, and  *)
(* once its write has failed it cannot end well.                            *)
AgentEffect(w) ==
    /\ w \in Branches /\ pc \in {"agent", "join"} /\ wpc[w] # "done"
    /\ UNCHANGED <<task, pc, stage, next, why, runSeq, runs>>
    /\ Logged /\ steps' \in Seq(Text)
    /\ Clean => Clean' \/ Doomed(w)'
    /\ Doomed(w) => Doomed(w)'
    /\ wpc' = [wpc EXCEPT ![w] = wpc'[w]] /\ wpc'[w] \in AgentPosition \ {"off"}
    /\ fail' = [fail EXCEPT ![w] = fail'[w]] /\ fail'[w] \in Reason \union {None, "raised"}
    /\ Fits(wpc'[w], fail'[w])
    /\ accepted \subseteq accepted'
    /\ wpc'[w] = "done" /\ fail'[w] = None => <<stage, w>> \in accepted'
    /\ result' \in [verdict : Reason, stored : BOOLEAN] \union {None}
    /\ result' # None <=> ~Stage.group /\ wpc'[w] = "done" /\ fail'[w] \in Reason
    /\ Agreed'

(* A branch that is about to take a step.                                   *)
Stepping(w) ==
    /\ w \in Branch /\ pc \in {"agent", "join"} /\ wpc[w] \notin {"off", "done"}

LEMMA AtStep ==
    ASSUME IInv, NEW w, Stepping(w)
    PROVE  /\ DiskInv /\ Working /\ w \in Branches /\ BranchOK(w)
           /\ result = None /\ why = None
           /\ w \in Branch /\ DOMAIN wpc = Branch /\ DOMAIN fail = Branch
           /\ wpc[w] \in AgentPosition /\ fail[w] \in Reason \union {None, "raised"}
           /\ ~Stage.group => w = 1
<1>1. DiskInv /\ Working /\ w \in Branch
  BY DEF IInv, Stepping, Working
<1>2. BranchOK(w) /\ w \in Branches /\ why = None
  BY DEF IInv, BranchesInv, BranchOK, Stepping
<1>3. /\ DOMAIN wpc = Branch /\ DOMAIN fail = Branch
      /\ wpc[w] \in AgentPosition /\ fail[w] \in Reason \union {None, "raised"}
  BY <1>1 DEF DiskInv, Types
<1>4. ~Stage.group => w = 1
  BY <1>1, <1>2, ManagerConstants DEF Branches, Branch, Stage, DiskInv, Types
<1>5. result = None
  <2>1. CASE pc = "join"
    BY <2>1 DEF IInv, BranchesInv, Workers
  <2>2. CASE pc = "agent"
    BY <2>2, <1>4 DEF IInv, BranchesInv, OwnThread, Stepping
  <2> QED BY <2>1, <2>2 DEF Stepping
<1> QED BY <1>1, <1>2, <1>3, <1>4, <1>5

(* The steps that leave the Outcome to a later one: the branch goes to p    *)
(* and fails with r (None: not yet).                                        *)
Quiet(w) ==
    /\ Stepping(w) /\ UNCHANGED main /\ accepted' = accepted
    /\ Logged /\ steps' \in Seq(Text)

LEMMA Moves ==
    ASSUME IInv, NEW w, Quiet(w), NEW p \in AgentPosition \ {"off"},
           NEW r \in Reason \union {None, "raised"},
           wpc' = [wpc EXCEPT ![w] = p], fail' = [fail EXCEPT ![w] = r],
           Fits(p, r), p = "done" => Stage.group /\ r # None,
           Clean => Clean' \/ r # None \/ p = "refused",
           Doomed(w) => r # None \/ p = "refused"
    PROVE  AgentEffect(w)
<1>1. /\ w \in Branches /\ result = None
      /\ w \in Branch /\ DOMAIN wpc = Branch /\ DOMAIN fail = Branch
  BY AtStep DEF Quiet
<1>2. wpc'[w] = p /\ fail'[w] = r
  BY <1>1
<1>3. result' = None /\ accepted' = accepted
  BY <1>1 DEF Quiet, main
<1>4. Doomed(w)' <=> r # None \/ p = "refused"
  BY <1>2 DEF Doomed
<1>5. Agreed'
  BY <1>3 DEF Agreed, Stored
<1>6. /\ pc \in {"agent", "join"} /\ wpc[w] # "done"
      /\ UNCHANGED <<task, pc, stage, next, why, runSeq, runs>>
      /\ Logged /\ steps' \in Seq(Text)
  BY DEF Quiet, Stepping, main
<1> QED BY <1>1, <1>2, <1>3, <1>4, <1>5, <1>6 DEF AgentEffect

LEMMA FailsLater ==
    ASSUME IInv, NEW w, Quiet(w), NEW r \in Reason,
           NEW p \in {"cancel", "record", "last record", "refused"},
           \/ Failing(w, r, p)
           \/ p = "cancel" /\ Cancelling(w, r)
    PROVE  AgentEffect(w)
<1>1. r # None /\ r \in Reason \union {None, "raised"}
  BY NoneIsNothing
<1>2. CASE Failing(w, r, p)
  <2> DEFINE q == IF Stage.group THEN "done" ELSE p
  <2>1. /\ wpc' = [wpc EXCEPT ![w] = q] /\ fail' = [fail EXCEPT ![w] = r]
        /\ q \in AgentPosition \ {"off"} /\ (q = "done" => Stage.group)
    BY <1>2 DEF Failing, To, AgentPosition
  <2>2. Fits(q, r)
    BY DEF Fits
  <2> HIDE DEF q
  <2> QED BY <2>1, <2>2, <1>1, Moves
<1>3. CASE p = "cancel" /\ Cancelling(w, r)
  <2>1. /\ wpc' = [wpc EXCEPT ![w] = p] /\ fail' = [fail EXCEPT ![w] = r]
        /\ p \in AgentPosition \ {"off"} /\ p # "done" /\ Fits(p, r)
    BY <1>3 DEF Cancelling, To, AgentPosition, Fits
  <2> QED BY <2>1, <1>1, Moves
<1> QED BY <1>2, <1>3

(* A step of the loop that goes on: nothing has failed so far.              *)
LEMMA GoesOn ==
    ASSUME IInv, NEW w, Quiet(w), NEW p \in AgentPosition \ {"off", "done"},
           To(w, p), UNCHANGED fail, Fits(p, fail[w]), Clean => Clean' \/ Doomed(w),
           wpc[w] = "refused" => p = "refused"
    PROVE  AgentEffect(w)
<1>1. /\ fail[w] \in Reason \union {None, "raised"}
      /\ w \in Branch /\ DOMAIN fail = Branch
  BY AtStep DEF Quiet
<1>2. fail' = [fail EXCEPT ![w] = fail[w]] /\ wpc' = [wpc EXCEPT ![w] = p]
  BY <1>1, AtStep DEF Quiet, To, DiskInv, Types
<1>3. Doomed(w) => fail[w] # None \/ p = "refused"
  BY DEF Doomed
<1>4. Clean => Clean' \/ fail[w] # None \/ p = "refused"
  BY <1>3
<1> QED BY <1>1, <1>2, <1>3, <1>4, Moves

(* The steps of _execute_agent that write nothing.                          *)
LEMMA SilentSteps ==
    ASSUME IInv, NEW w \in Branch,
           \/ \E b \in BOOLEAN : Start(w, b) \/ Check(w, b)
           \/ \E item \in Item : NextStep(w, item)
           \/ ToolRaises(w)
    PROVE  AgentEffect(w)
<1>1. Quiet(w) /\ DiskInv /\ Working /\ (Clean => Clean')
  <2>1. Stepping(w) /\ UNCHANGED main /\ UNCHANGED log /\ UNCHANGED accepted
    BY DEF Start, Check, NextStep, ToolRaises, At, Stepping, threadsBut
  <2>2. DiskInv /\ Working
    BY <2>1, AtStep
  <2>3. Logged /\ steps' \in Seq(Text) /\ (Clean => Clean')
    BY <2>1, <2>2, SameLogged DEF main, log, DiskInv, Types, Clean, file, id
  <2> QED BY <2>1, <2>2, <2>3 DEF Quiet
<1>2. Fits(wpc[w], fail[w]) /\ fail[w] \in Reason \union {None, "raised"}
  BY <1>1, AtStep DEF Quiet, BranchOK
<1>3. {"check", "ask", "persist", "verify", "request", "reject"} \subseteq AgentPosition \ {"off", "done"}
  BY DEF AgentPosition
<1>4. {"internal", "agent error", "cancelled", "timeout", "step limit"} \subseteq Reason
  BY DEF Reason
<1>5. ASSUME NEW b \in BOOLEAN, Start(w, b)
      PROVE  AgentEffect(w)
  <2>1. wpc[w] = "start" /\ fail[w] = None
    BY <1>2, <1>5 DEF Start, At, Fits
  <2>2. CASE b
    <3>1. To(w, "check") /\ UNCHANGED fail /\ Fits("check", fail[w])
      BY <1>5, <2>1, <2>2 DEF Start, Fits
    <3> QED BY <3>1, <2>1, <1>1, <1>3, GoesOn
  <2>3. CASE ~b
    BY <1>1, <1>4, <1>5, <2>3, FailsLater DEF Start, Fails
  <2> QED BY <2>2, <2>3
<1>6. ASSUME NEW b \in BOOLEAN, Check(w, b)
      PROVE  AgentEffect(w)
  <2>1. wpc[w] = "check" /\ fail[w] = None
    BY <1>2, <1>6 DEF Check, At, Fits
  <2>2. \/ \E r \in {"cancelled", "timeout", "step limit"} : Cancelling(w, r)
        \/ To(w, "ask") /\ UNCHANGED fail
    BY <1>6 DEF Check
  <2>3. Fits("ask", fail[w])
    BY <2>1 DEF Fits
  <2> QED BY <2>1, <2>2, <2>3, <1>1, <1>3, <1>4, GoesOn, FailsLater
<1>7. ASSUME NEW item \in Item, NextStep(w, item)
      PROVE  AgentEffect(w)
  <2>1. wpc[w] = "ask" /\ fail[w] = None
    BY <1>2, <1>7 DEF NextStep, At, Fits
  <2>2. CASE item = "late"
    <3>1. Cancelling(w, "timeout")
      BY <1>7, <2>2 DEF NextStep
    <3> QED BY <3>1, <1>1, <1>4, FailsLater
  <2>3. CASE item \in {"error", "unsupported"}
    <3>1. Failing(w, "agent error", "record")
      BY <1>7, <2>3 DEF NextStep, Fails
    <3> QED BY <3>1, <1>1, <1>4, FailsLater
  <2>4. CASE item \in {"step", "tool", "result"}
    <3>1. PICK p \in {"persist", "verify", "request", "reject"} : To(w, p) /\ UNCHANGED fail
      BY <1>7, <2>4 DEF NextStep
    <3>2. Fits(p, fail[w])
      BY <2>1 DEF Fits
    <3> QED BY <3>1, <3>2, <2>1, <1>1, <1>3, GoesOn
  <2> QED BY <2>2, <2>3, <2>4 DEF Item
<1>8. ASSUME ToolRaises(w)
      PROVE  AgentEffect(w)
  BY <1>1, <1>4, <1>8, FailsLater DEF ToolRaises, Excepts, Fails
<1> QED BY <1>5, <1>6, <1>7, <1>8

(* The steps that write a record of the branch.                             *)
LEMMA RecordedSteps ==
    ASSUME IInv, NEW w \in Branch, NEW f \in Fault,
           \/ PersistStep(w, f) \/ RejectTool(w, f) \/ RequestTool(w, f)
           \/ ExecuteTool(w, f) \/ Cancel(w, f) \/ Forced(w, f)
    PROVE  AgentEffect(w)
<1>1. PICK what \in Text : append(what, w, f)
  BY DEF PersistStep, RejectTool, RequestTool, ExecuteTool, Cancel, Forced, Text
<1>2. Quiet(w) /\ (f = "none" /\ Clean => Clean')
  <2>1. Stepping(w) /\ UNCHANGED main /\ UNCHANGED accepted
    BY DEF PersistStep, RejectTool, RequestTool, ExecuteTool, Cancel, Forced, At, Stepping, threadsBut
  <2>2. DiskInv /\ Working
    BY <2>1, AtStep
  <2>3. Logged /\ steps' \in Seq(Text) /\ (f = "none" /\ Clean => Clean')
    BY <2>1, <2>2, <1>1, AppendLogged DEF main
  <2> QED BY <2>1, <2>3 DEF Quiet
<1>3. Fits(wpc[w], fail[w]) /\ fail[w] \in Reason \union {None, "raised"}
  BY <1>2, AtStep DEF Quiet, BranchOK
<1>4. {"check", "execute", "close", "refused"} \subseteq AgentPosition \ {"off", "done"}
  BY DEF AgentPosition
<1>5. "internal" \in Reason /\ "agent error" \in Reason
  BY DEF Reason
<1>6. ASSUME Excepts(w) \/ Fails(w, "internal", "record") \/ Persistence(w, "refused")
      PROVE  AgentEffect(w)
  BY <1>2, <1>5, <1>6, FailsLater DEF Excepts, Fails, Persistence
<1>7. ASSUME wpc[w] \in {"persist", "reject", "request", "execute"}, f = "none",
             NEW p \in {"check", "execute"}, To(w, p), UNCHANGED fail
      PROVE  AgentEffect(w)
  <2>1. Fits(p, fail[w])
    BY <1>3, <1>7 DEF Fits
  <2> QED BY <2>1, <1>2, <1>4, <1>7, GoesOn
<1>8. OSFault(f) \/ f = "refused" \/ f = "none"
  BY DEF Fault, OSFault
<1>9. ~(OSFault("refused") \/ OSFault("none"))
  BY DEF OSFault
<1>10. CASE PersistStep(w, f)
  <2>1. wpc[w] = "persist"
    BY <1>10 DEF PersistStep, At
  <2>2. CASE OSFault(f)
    BY <1>6, <1>10, <2>2, <1>9 DEF PersistStep
  <2>3. CASE f = "refused"
    <3>1. To(w, "refused") /\ UNCHANGED fail /\ fail[w] = None
      BY <1>3, <1>9, <1>10, <2>1, <2>3 DEF PersistStep, Fits
    <3>2. Fits("refused", fail[w]) /\ wpc' = [wpc EXCEPT ![w] = "refused"]
          /\ fail' = [fail EXCEPT ![w] = fail[w]]
      BY <3>1, <1>2, AtStep DEF Fits, To, Quiet, DiskInv, Types
    <3> QED BY <3>1, <3>2, <1>2, <1>3, <1>4, Moves
  <2>4. CASE f = "none"
    BY <1>7, <1>9, <1>10, <2>1, <2>4 DEF PersistStep, Consumed
  <2> QED BY <1>8, <2>2, <2>3, <2>4
<1>11. CASE RejectTool(w, f)
  BY <1>6, <1>7, <1>8, <1>9, <1>11 DEF RejectTool, Consumed, At
<1>12. CASE RequestTool(w, f)
  BY <1>6, <1>7, <1>8, <1>9, <1>12 DEF RequestTool, At
<1>13. CASE ExecuteTool(w, f)
  BY <1>6, <1>7, <1>8, <1>9, <1>13 DEF ExecuteTool, Consumed, At
<1>14. CASE Cancel(w, f)
  <2>1. wpc[w] = "cancel" /\ fail[w] \in Reason
    BY <1>3, <1>14 DEF Cancel, At, Fits
  <2>2. Fits("close", fail[w]) /\ Doomed(w)
    BY <2>1, NoneIsNothing DEF Fits, Doomed
  <2>3. CASE f = "none"
    <3>1. To(w, "close") /\ UNCHANGED fail
      BY <1>9, <1>14, <2>3 DEF Cancel
    <3> QED BY <3>1, <2>1, <2>2, <1>2, <1>4, GoesOn
  <2> QED BY <2>3, <1>6, <1>8, <1>9, <1>14 DEF Cancel
<1>15. CASE Forced(w, f)
  <2>1. fail[w] \in Reason
    BY <1>3, <1>15 DEF Forced, At, Fits
  <2>2. CASE f = "none"
    <3>1. Failing(w, fail[w], "record")
      BY <1>9, <1>15, <2>2 DEF Forced
    <3> QED BY <3>1, <2>1, <1>2, FailsLater
  <2> QED BY <2>2, <1>6, <1>8, <1>9, <1>15 DEF Forced
<1> QED BY <1>10, <1>11, <1>12, <1>13, <1>14, <1>15

(* The steps that record an outcome: the only ones that may set the result  *)
(* of an agent in run's own thread.                                         *)
LEMMA Decides ==
    ASSUME IInv, NEW w \in Branch, Stepping(w), NEW f \in Fault, NEW v \in Reason,
           record_outcome(v, f), Decide(v, f), UNCHANGED <<steps, accepted>>,
           NEW p \in AgentPosition \ {"off"}, NEW r \in Reason \union {"raised"},
           wpc' = [wpc EXCEPT ![w] = p], fail' = [fail EXCEPT ![w] = r],
           Fits(p, r),
           OSFault(f) /\ p = "done" /\ r \in Reason => Stage.group,
           ~OSFault(f) => p = "done" /\ r \in Reason
    PROVE  AgentEffect(w)
<1>1. /\ DiskInv /\ Working /\ w \in Branches /\ result = None
      /\ w \in Branch /\ DOMAIN wpc = Branch /\ DOMAIN fail = Branch
  BY AtStep
<1>2. wpc'[w] = p /\ fail'[w] = r /\ r # None /\ "raised" \notin Reason
  BY <1>1, NoneIsNothing DEF Reason
<1>3. UNCHANGED <<task, pc, stage, next, why, runSeq, runs>>
  BY DEF Decide
<1>4. /\ Logged
      /\ f = "none" => Corrupt(file') \/ \E i \in DOMAIN file' : file'[i] = OutcomeOf(v)
  BY <1>1, <1>3, OutcomeLogged DEF Verdict
<1>5. steps' \in Seq(Text) /\ accepted \subseteq accepted'
  BY <1>1 DEF DiskInv, Types
<1>6. ~OSFault(f) => f \in {"none", "refused"}
  BY DEF Fault, OSFault
<1>7. CASE Stage.group \/ OSFault(f)
  <2>1. result' = None
    BY <1>1, <1>7 DEF Decide
  <2>2. Agreed'
    BY <2>1 DEF Agreed, Stored
  <2>3. Doomed(w)'
    BY <1>2 DEF Doomed
  <2> QED BY <1>1, <1>2, <1>3, <1>4, <1>5, <1>7, <2>1, <2>2, <2>3 DEF AgentEffect, Stepping
<1>8. CASE ~Stage.group /\ ~OSFault(f)
  <2> DEFINE o == [verdict |-> IF f = "none" THEN v ELSE "internal", stored |-> f = "none"]
  <2>1. result' = o
    BY <1>8 DEF Decide
  <2>2. o \in [verdict : Reason, stored : BOOLEAN] /\ o # None
    <3>1. (IF f = "none" THEN v ELSE "internal") \in Reason
      BY DEF Reason
    <3>2. o \in [verdict : Reason, stored : BOOLEAN]
      BY <3>1
    <3>3. \A q \in [verdict : Reason, stored : BOOLEAN] : q # None
      BY NoneIsNothing DEF Verdict
    <3> QED BY <3>2, <3>3
  <2>3. f = "none" => o.verdict = v
    OBVIOUS
  <2>4. o.stored <=> f = "none"
    OBVIOUS
  <2> HIDE DEF o
  <2>5. Agreed'
    BY <1>4, <2>1, <2>3, <2>4 DEF Agreed, Stored
  <2>6. Doomed(w)'
    BY <1>2 DEF Doomed
  <2>7. result' \in [verdict : Reason, stored : BOOLEAN] \union {None} /\ result' # None
    BY <2>1, <2>2
  <2> QED BY <1>1, <1>2, <1>3, <1>4, <1>5, <1>8, <2>5, <2>6, <2>7 DEF AgentEffect, Stepping
<1> QED BY <1>7, <1>8

LEMMA ClosingStep ==
    ASSUME IInv, NEW w \in Branch, NEW forced \in BOOLEAN, CloseCancelled(w, forced)
    PROVE  AgentEffect(w)
<1>1. /\ wpc[w] = "close" /\ Stepping(w) /\ UNCHANGED <<main, log, accepted, fail>>
  BY DEF CloseCancelled, At, Stepping, threadsBut
<1>2. DiskInv /\ Working /\ DOMAIN fail = Branch /\ fail[w] \in Reason \union {None, "raised"}
  BY <1>1, AtStep
<1>3. Quiet(w) /\ (Clean => Clean')
  BY <1>1, <1>2, SameLogged DEF Quiet, main, log, DiskInv, Types, Clean, file, id
<1>4. fail[w] \in Reason /\ fail[w] # None
  BY <1>1, AtStep, NoneIsNothing DEF BranchOK, Fits
<1>5. PICK p \in {"forced", "done", "record"} :
         wpc' = [wpc EXCEPT ![w] = p] /\ (p = "done" => Stage.group)
  BY DEF CloseCancelled, To
<1>6. fail' = [fail EXCEPT ![w] = fail[w]]
  BY <1>1, <1>2 DEF DiskInv, Types
<1>7. Fits(p, fail[w]) /\ p \in AgentPosition \ {"off"}
  BY <1>4 DEF Fits, AgentPosition
<1> QED BY <1>2, <1>3, <1>4, <1>5, <1>6, <1>7, Moves

LEMMA OutcomeSteps ==
    ASSUME IInv, NEW w \in Branch, NEW f \in Fault,
           RecordRefused(w, f) \/ RecordInLoop(w, f) \/ RecordLast(w, f)
    PROVE  AgentEffect(w)
<1>1. Stepping(w) /\ UNCHANGED <<steps, accepted>>
  BY DEF RecordRefused, RecordInLoop, RecordLast, At, Stepping, threadsBut
<1>2. DOMAIN fail = Branch /\ Fits(wpc[w], fail[w])
  BY <1>1, AtStep DEF BranchOK
<1>3. {"done", "last record"} \subseteq AgentPosition \ {"off"}
  BY DEF AgentPosition
<1>4. {"internal", "agent error"} \subseteq Reason
  BY DEF Reason
<1>5. ASSUME NEW r \in Reason \union {"raised"}
      PROVE  Fits("done", r)
  BY DEF Fits
<1>6. ASSUME NEW v \in Reason, record_outcome(v, f), Decide(v, f), OSFault(f), Excepts(w)
      PROVE  AgentEffect(w)
  <2> DEFINE q == IF Stage.group THEN "done" ELSE "last record"
  <2>1. wpc' = [wpc EXCEPT ![w] = q] /\ fail' = [fail EXCEPT ![w] = "agent error"]
    BY <1>6 DEF Excepts, Fails, Failing, To
  <2>2. Fits(q, "agent error") /\ (q = "done" => Stage.group)
        /\ q \in AgentPosition \ {"off"}
    BY <1>3, <1>4 DEF Fits
  <2> HIDE DEF q
  <2> QED BY <2>1, <2>2, <1>1, <1>4, <1>6, Decides
<1>7. CASE RecordRefused(w, f)
  <2>1. CASE OSFault(f)
    BY <1>4, <1>6, <1>7, <2>1 DEF RecordRefused
  <2>2. CASE ~OSFault(f)
    <3>1. /\ record_outcome("internal", f) /\ Decide("internal", f)
          /\ wpc' = [wpc EXCEPT ![w] = "done"] /\ fail' = [fail EXCEPT ![w] = "internal"]
      BY <1>7, <2>2 DEF RecordRefused, To
    <3> QED BY <3>1, <2>2, <1>1, <1>3, <1>4, <1>5, Decides
  <2> QED BY <2>1, <2>2
<1>8. CASE RecordInLoop(w, f)
  <2>1. fail[w] \in Reason
    BY <1>2, <1>8 DEF RecordInLoop, At, Fits
  <2>2. CASE OSFault(f)
    BY <1>6, <1>8, <2>1, <2>2 DEF RecordInLoop
  <2>3. CASE ~OSFault(f)
    <3>1. /\ record_outcome(fail[w], f) /\ Decide(fail[w], f)
          /\ wpc' = [wpc EXCEPT ![w] = "done"] /\ UNCHANGED fail
      BY <1>8, <2>3 DEF RecordInLoop, To
    <3>2. fail' = [fail EXCEPT ![w] = fail[w]]
      BY <3>1, <1>2 DEF IInv, DiskInv, Types
    <3> QED BY <3>1, <3>2, <2>1, <2>3, <1>1, <1>3, <1>5, Decides
  <2> QED BY <2>2, <2>3
<1>9. CASE RecordLast(w, f)
  <2> DEFINE r == IF OSFault(f) THEN "raised" ELSE fail[w]
  <2>1. fail[w] \in Reason
    BY <1>2, <1>9 DEF RecordLast, At, Fits
  <2>2. /\ record_outcome(fail[w], f) /\ Decide(fail[w], f)
        /\ wpc' = [wpc EXCEPT ![w] = "done"] /\ fail' = [fail EXCEPT ![w] = r]
    BY <1>2, <1>9 DEF RecordLast, To
  <2>3. r \in Reason \union {"raised"} /\ (OSFault(f) => r \notin Reason)
        /\ (~OSFault(f) => r \in Reason)
    BY <2>1 DEF Reason
  <2> HIDE DEF r
  <2> QED BY <2>1, <2>2, <2>3, <1>1, <1>3, <1>5, Decides
<1> QED BY <1>7, <1>8, <1>9

(* The verification gate, the only step that ends a branch without failure. *)
LEMMA VerifyStep ==
    ASSUME IInv, NEW w \in Branch, NEW says \in {"accepts", "refuses", "raises"},
           Verify(w, says)
    PROVE  AgentEffect(w)
<1>1. /\ wpc[w] = "verify" /\ Stepping(w) /\ UNCHANGED <<main, log>>
  BY DEF Verify, At, Stepping
<1>2. /\ DiskInv /\ Working /\ DOMAIN fail = Branch /\ DOMAIN wpc = Branch
      /\ w \in Branches /\ result = None
  BY <1>1, AtStep
<1>3. Logged /\ steps' \in Seq(Text) /\ (Clean => Clean')
  BY <1>1, <1>2, SameLogged DEF main, log, DiskInv, Types, Clean, file, id
<1>4. fail[w] = None
  BY <1>1, AtStep DEF BranchOK, Fits
<1>5. CASE says = "refuses"
  <2>1. Quiet(w) /\ Failing(w, "verification", "last record") /\ "verification" \in Reason
    BY <1>1, <1>3, <1>5 DEF Verify, Fails, Quiet, Reason
  <2> QED BY <2>1, FailsLater
<1>6. CASE says = "raises"
  <2>1. /\ Quiet(w) /\ wpc' = [wpc EXCEPT ![w] = "done"] /\ fail' = [fail EXCEPT ![w] = "raised"]
    BY <1>1, <1>3, <1>6 DEF Verify, To, Quiet
  <2>2. /\ wpc'[w] = "done" /\ fail'[w] = "raised" /\ "raised" \notin Reason
        /\ "raised" # None /\ Fits("done", "raised") /\ "done" \in AgentPosition \ {"off"}
    BY <2>1, <1>2, NoneIsNothing DEF Fits, AgentPosition, Reason
  <2>3. Doomed(w)' /\ result' = None /\ Agreed'
    BY <2>2, <1>1, <1>2 DEF Doomed, Agreed, Stored, main
  <2>4. /\ UNCHANGED <<task, pc, stage, next, why, runSeq, runs>>
        /\ accepted' = accepted /\ pc \in {"agent", "join"}
    BY <2>1, <1>1 DEF Quiet, main, Stepping
  <2> QED BY <2>1, <2>2, <2>3, <2>4, <1>1, <1>2, <1>3 DEF AgentEffect
<1>7. CASE says = "accepts"
  <2>1. /\ wpc' = [wpc EXCEPT ![w] = "done"] /\ fail' = [fail EXCEPT ![w] = fail[w]]
        /\ accepted' = accepted \union {<<stage, w>>}
    BY <1>2, <1>7 DEF Verify, To, DiskInv, Types
  <2>2. /\ wpc'[w] = "done" /\ fail'[w] = None
        /\ Fits("done", None) /\ "done" \in AgentPosition \ {"off"}
    BY <2>1, <1>2, <1>4 DEF Fits, AgentPosition
  <2>3. ~Doomed(w) /\ result' = None /\ Agreed'
    BY <1>1, <1>2, <1>4 DEF Doomed, Agreed, Stored, main
  <2>4. /\ UNCHANGED <<task, pc, stage, next, why, runSeq, runs>>
        /\ pc \in {"agent", "join"} /\ None \notin Reason
    BY <1>1, NoneIsNothing DEF main, Stepping
  <2> QED BY <2>1, <2>2, <2>3, <2>4, <1>1, <1>2, <1>3, <1>4 DEF AgentEffect
<1> QED BY <1>5, <1>6, <1>7

LEMMA AgentSteps ==
    ASSUME IInv, NEW w \in Branch, AgentStep(w)
    PROVE  AgentEffect(w)
BY SilentSteps, RecordedSteps, ClosingStep, OutcomeSteps, VerifyStep DEF AgentStep

-----------------------------------------------------------------------------
(* The other branches are where they were.                                  *)
LEMMA AgentKeeps ==
    ASSUME IInv, NEW w \in Branch, AgentEffect(w)
    PROVE  IInv'
<1>1. /\ DiskInv /\ Working /\ DOMAIN wpc = Branch /\ DOMAIN fail = Branch
      /\ UNCHANGED <<task, pc, stage, next, why, runSeq, runs>>
      /\ pc \in {"agent", "join"} /\ w \in Branches
  BY DEF IInv, DiskInv, Types, AgentEffect, Working
<1>2. /\ disk' \in [Files -> Seq(Record) \union {None}]
      /\ file' # None /\ OneOutcomeEach' /\ id' = id
  BY <1>1, LoggedDisk DEF AgentEffect
<1>3. /\ wpc' \in [Branch -> AgentPosition]
      /\ fail' \in [Branch -> Reason \union {None, "raised"}]
      /\ \A v \in Branch : v # w => wpc'[v] = wpc[v] /\ fail'[v] = fail[v]
  BY <1>1 DEF AgentEffect, DiskInv, Types
<1>4. DiskInv'
  <2>1. Types'
    BY <1>1, <1>2, <1>3 DEF AgentEffect, DiskInv, Types, Verdict
  <2>2. FileThere'
    BY <1>1, <1>2 DEF DiskInv, FileThere, Working
  <2> QED BY <2>1, <2>2, <1>2 DEF DiskInv
<1>5. Stage' = Stage /\ Branches' = Branches /\ LastStage' = LastStage
  BY <1>1 DEF Stage, Branches, LastStage
<1>6. BranchesInv'
  <2>1. why' = None /\ \A v \in Branch : BranchOK(v)'
    <3>1. why = None /\ \A v \in Branch : BranchOK(v)
      BY <1>1 DEF IInv, BranchesInv
    <3>2. BranchOK(w)'
      BY <1>1, <1>5 DEF AgentEffect, BranchOK
    <3>3. ASSUME NEW v \in Branch, v # w PROVE BranchOK(v)'
      BY <3>1, <3>3, <1>1, <1>3, <1>5 DEF BranchOK, AgentEffect, Fits
    <3> QED BY <3>1, <3>2, <3>3, <1>1
  <2>2. Clean' \/ \E v \in Branches' : Doomed(v)'
    <3>1. CASE Clean
      BY <3>1, <1>1, <1>5 DEF AgentEffect
    <3>2. CASE ~Clean
      <4>1. PICK v \in Branches : Doomed(v)
        BY <3>2, <1>1 DEF IInv, BranchesInv
      <4>2. CASE v = w
        BY <4>1, <4>2, <1>1, <1>5 DEF AgentEffect
      <4>3. CASE v # w
        <5>1. v \in Branch
          BY <1>1, ManagerConstants DEF Branches, Branch, Stage, DiskInv, Types
        <5> QED BY <4>1, <4>3, <5>1, <1>3, <1>5 DEF Doomed
      <4> QED BY <4>2, <4>3
    <3> QED BY <3>1, <3>2
  <2>3. pc = "agent" => OwnThread'
    <3>1. ASSUME pc = "agent" PROVE OwnThread'
      <4>1. ~Stage.group /\ w = 1
        BY <3>1, <1>1, AtStep DEF IInv, BranchesInv, OwnThread, AgentEffect, Stepping, BranchOK
      <4> QED BY <4>1, <1>5 DEF AgentEffect, OwnThread
    <3> QED BY <3>1
  <2>4. pc = "join" => Workers'
    <3>1. ASSUME pc = "join" PROVE Workers'
      <4>1. Workers /\ result' = None
        BY <3>1 DEF IInv, BranchesInv, Workers, AgentEffect
      <4>2. \A v \in Branches : v < next => wpc'[v] = "done"
        <5>1. \A v \in Branches : v \in Branch
          BY <1>1, ManagerConstants DEF Branches, Branch, Stage, DiskInv, Types
        <5> QED BY <4>1, <5>1, <1>3 DEF Workers, AgentEffect
      <4> QED BY <4>1, <4>2, <3>1, <1>1, <1>5 DEF Workers
    <3> QED BY <3>1
  <2> QED BY <2>1, <2>2, <2>3, <2>4, <1>1, <1>5 DEF BranchesInv
<1>7. FlowInv'
  BY <1>1 DEF FlowInv
<1>8. ResultInv'
  <2>1. EarlierAccepted'
    BY <1>1 DEF IInv, ResultInv, EarlierAccepted, AgentEffect
  <2>2. VerifiedLast'
    BY DEF VerifiedLast, AgentEffect, Reason
  <2> QED BY <2>1, <2>2 DEF ResultInv, AgentEffect
<1> QED BY <1>4, <1>6, <1>7, <1>8 DEF IInv

-----------------------------------------------------------------------------
(* The steps of run itself, by where they lead.                             *)
RunStep ==
    /\ Working /\ UNCHANGED <<task, runSeq, runs, accepted>>
    /\ Logged /\ steps' \in Seq(Text)
    /\ wpc' \in [Branch -> AgentPosition]
    /\ fail' \in [Branch -> Reason \union {None, "raised"}]

LEMMA Marks ==
    ASSUME IInv, Working, UNCHANGED <<task, runSeq, runs, threads>>,
           \/ UNCHANGED log
           \/ \E f \in Fault : append("marker", 1, f)
    PROVE  RunStep
<1>1. DiskInv
  BY DEF IInv
<1>2. UNCHANGED <<wpc, fail, accepted>> /\ "marker" \in Text
  BY DEF threads, Text
<1>3. CASE UNCHANGED log
  <2>1. Logged /\ steps' = steps
    BY <1>1, <1>3, SameLogged DEF log
  <2> QED BY <2>1, <1>1, <1>2 DEF RunStep, DiskInv, Types
<1>4. CASE \E f \in Fault : append("marker", 1, f)
  <2>1. PICK f \in Fault : append("marker", 1, f)
    BY <1>4
  <2>2. Logged /\ steps' \in Seq(Text)
    BY <2>1, <1>1, <1>2, AppendLogged
  <2> QED BY <2>2, <1>1, <1>2 DEF RunStep, DiskInv, Types
<1> QED BY <1>3, <1>4

LEMMA RunStepDisk ==
    ASSUME IInv, RunStep, stage' \in DOMAIN task.stages, next' \in Nat,
           why' \in Reason \union {None},
           result' \in [verdict : Verdict \union {"raised"}, stored : BOOLEAN] \union {None}
    PROVE  /\ DiskInv'
           /\ id' = id /\ file' = disk'[id]
           /\ stage' = stage => EarlierAccepted'
<1>1. DiskInv /\ UNCHANGED <<task, runSeq>>
  BY DEF IInv, RunStep
<1>2. /\ disk' \in [Files -> Seq(Record) \union {None}]
      /\ file' # None /\ OneOutcomeEach' /\ id' = id /\ file' = disk'[id]
  BY <1>1, LoggedDisk DEF RunStep
<1>3. Types'
  BY <1>1, <1>2 DEF RunStep, DiskInv, Types
<1>4. FileThere'
  BY <1>1, <1>2 DEF RunStep, DiskInv, FileThere
<1>5. stage' = stage => EarlierAccepted'
  BY <1>1 DEF IInv, ResultInv, EarlierAccepted, RunStep
<1> QED BY <1>2, <1>3, <1>4, <1>5 DEF DiskInv

(* run goes on with the result it has, if any.                              *)
LEMMA Onward ==
    ASSUME IInv, RunStep, stage' \in DOMAIN task.stages, next' \in Nat,
           why' \in Reason \union {None}, UNCHANGED result
    PROVE  /\ DiskInv' /\ Agreed' /\ VerifiedLast'
           /\ stage' = stage => EarlierAccepted'
<1>1. DiskInv' /\ file' = disk'[id] /\ (stage' = stage => EarlierAccepted')
  BY RunStepDisk DEF IInv, DiskInv, Types
<1>2. Agreed'
  <2>1. ASSUME result # None, result.stored
        PROVE  Corrupt(file') \/ \E i \in DOMAIN file' : file'[i] = OutcomeOf(result.verdict)
    <3>1. CASE Corrupt(file)
      BY <3>1, <1>1 DEF RunStep, Logged
    <3>2. CASE ~Corrupt(file)
      <4>1. PICK i \in DOMAIN file : file[i] = OutcomeOf(result.verdict)
        BY <2>1, <3>2 DEF IInv, ResultInv, Agreed, Stored
      <4>2. file[i] # Torn
        BY <4>1 DEF OutcomeOf, Torn
      <4>3. i \in DOMAIN file' /\ file'[i] = file[i]
        BY <4>2, <1>1 DEF RunStep, Logged
      <4> QED BY <4>1, <4>3
    <3> QED BY <3>1, <3>2
  <2> QED BY <2>1 DEF Agreed, Stored
<1>3. VerifiedLast'
  <2>1. ~(result # None /\ result.verdict = "verified")
    BY DEF IInv, ResultInv, VerifiedLast, RunStep, Working
  <2> QED BY <2>1 DEF VerifiedLast
<1> QED BY <1>1, <1>2, <1>3

LEMMA RaiseKeeps ==
    ASSUME IInv, RunStep, Raise
    PROVE  IInv'
<1>1. /\ pc' = "returned" /\ result' = Raised
      /\ UNCHANGED <<task, stage, next, why, runSeq, runs>>
  BY DEF Raise
<1>2. /\ Raised \in [verdict : Verdict \union {"raised"}, stored : BOOLEAN]
      /\ Raised # None /\ ~Raised.stored /\ Raised.verdict # "verified"
  <2>1. /\ Raised \in [verdict : Verdict \union {"raised"}, stored : BOOLEAN]
        /\ ~Raised.stored /\ Raised.verdict # "verified"
    BY DEF Raised
  <2> QED BY <2>1, NoneIsNothing
<1>3. DiskInv' /\ EarlierAccepted'
  BY <1>1, <1>2, RunStepDisk DEF IInv, DiskInv, Types
<1>4. BranchesInv' /\ FlowInv' /\ Agreed' /\ VerifiedLast'
  BY <1>1, <1>2 DEF BranchesInv, FlowInv, Agreed, Stored, VerifiedLast
<1> QED BY <1>3, <1>4 DEF IInv, ResultInv

LEMMA FailKeeps ==
    ASSUME IInv, RunStep, NEW p \in {"record", "account"}, NEW r \in Reason,
           FailWith(p, r)
    PROVE  IInv'
<1>1. /\ pc' = p /\ why' = r /\ UNCHANGED <<task, stage, next, result, runSeq, runs>>
  BY DEF FailWith
<1>2. DiskInv' /\ Agreed' /\ VerifiedLast' /\ EarlierAccepted'
  BY <1>1, Onward DEF IInv, DiskInv, Types
<1>3. BranchesInv' /\ FlowInv'
  BY <1>1, NoneIsNothing DEF BranchesInv, FlowInv
<1> QED BY <1>2, <1>3 DEF IInv, ResultInv

(* The stage is over and nothing has failed.                                *)
LEMMA StageKeeps ==
    ASSUME IInv, RunStep, Goto(AfterStage), why = None, result = None,
           Clean', StageAccepted
    PROVE  IInv'
<1>1. /\ pc' = AfterStage /\ UNCHANGED <<task, stage, next, why, result, runSeq, runs>>
      /\ accepted' = accepted
  BY DEF Goto, RunStep
<1>2. DiskInv' /\ Agreed' /\ VerifiedLast' /\ EarlierAccepted'
  BY <1>1, Onward DEF IInv, DiskInv, Types
<1>3. Stage' = Stage /\ Branches' = Branches /\ (LastStage' <=> LastStage)
  BY <1>1 DEF Stage, Branches, LastStage
<1>4. StageAccepted' /\ Untroubled'
  BY <1>1, <1>3 DEF StageAccepted, Untroubled
<1>5. task.kind # "pipeline" => LastStage
  <2>1. task \in Tasks /\ stage \in DOMAIN task.stages
    BY DEF IInv, DiskInv, Types
  <2>2. DOMAIN task.stages = 1..Len(task.stages) /\ (task.kind # "pipeline" => Len(task.stages) = 1)
    BY <2>1, ManagerConstants
  <2>3. Len(task.stages) = 1 => stage = 1
    BY <2>1, <2>2
  <2> QED BY <2>2, <2>3 DEF LastStage
<1>6. \/ pc' = "seal" /\ LastStage
      \/ pc' = "account" /\ LastStage
      \/ pc' = "handoff" /\ ~LastStage
  BY <1>1, <1>5 DEF AfterStage
<1>7. BranchesInv' /\ FlowInv'
  BY <1>3, <1>4, <1>6 DEF BranchesInv, FlowInv, Untroubled
<1> QED BY <1>2, <1>7 DEF IInv, ResultInv

(* The actions of run.                                                      *)
LEMMA PolicyKeeps ==
    ASSUME IInv, NEW f \in Fault, EvaluatePolicy(f)
    PROVE  IInv'
<1>1. Untroubled /\ Working /\ DiskInv
  BY DEF IInv, FlowInv, EvaluatePolicy, Working
<1>2. RunStep
  <2>1. UNCHANGED <<task, runSeq, runs, threads>>
    BY DEF EvaluatePolicy, Marked, Goto, FailWith, Raise
  <2>2. UNCHANGED log \/ append("marker", 1, f)
    BY DEF EvaluatePolicy
  <2> QED BY <2>1, <2>2, <1>1, Marks
<1>3. "internal" \in Reason /\ "policy" \in Reason
  BY DEF Reason
<1>4. ASSUME Goto("stage"), f = "none"
      PROVE  IInv'
  <2>1. /\ pc' = "stage" /\ UNCHANGED <<task, stage, next, why, result, runSeq, runs>>
    BY <1>4 DEF Goto
  <2>2. DiskInv' /\ Agreed' /\ VerifiedLast' /\ EarlierAccepted'
    BY <2>1, <1>1, <1>2, Onward DEF DiskInv, Types
  <2>3. Clean'
    <3>1. CASE UNCHANGED log
      BY <3>1, <2>1, <1>1 DEF Untroubled, Clean, file, id, log
    <3>2. CASE append("marker", 1, f)
      BY <3>2, <2>1, <1>1, <1>4, AppendLogged DEF Text, Untroubled
    <3> QED BY <3>1, <3>2 DEF EvaluatePolicy
  <2>4. BranchesInv' /\ FlowInv'
    BY <2>1, <2>3, <1>1 DEF BranchesInv, FlowInv, Untroubled
  <2> QED BY <2>2, <2>4 DEF IInv, ResultInv
<1>5. OSFault(f) \/ f = "refused" \/ f = "none"
  BY DEF Fault, OSFault
<1>6. ~OSFault("refused") /\ ~OSFault("none")
  BY DEF OSFault
<1>7. \/ Raise
      \/ FailWith("record", "internal")
      \/ FailWith("record", "policy")
      \/ Goto("stage") /\ f = "none"
  BY <1>5, <1>6 DEF EvaluatePolicy, Marked
<1> QED BY <1>2, <1>3, <1>4, <1>7, RaiseKeeps, FailKeeps

(* What Stage and Branches are, for the steps that read them.               *)
LEMMA StageFacts ==
    ASSUME DiskInv
    PROVE  /\ task \in Tasks /\ stage \in 1..Len(task.stages)
           /\ DOMAIN task.stages = 1..Len(task.stages) /\ Len(task.stages) \in Nat
           /\ Stage.group \in BOOLEAN /\ Len(Stage.branches) \in Branch
           /\ Branches = 1..Len(Stage.branches)
           /\ 1 \in Branches /\ Branches \subseteq Branch
           /\ ~Stage.group => Branches = {1}
<1>1. task \in Tasks /\ stage \in DOMAIN task.stages
  BY DEF DiskInv, Types
<1>2. /\ DOMAIN task.stages = 1..Len(task.stages) /\ Len(task.stages) \in Nat
      /\ Stage.group \in BOOLEAN /\ Len(Stage.branches) \in Branch
      /\ Branches = 1..Len(Stage.branches)
      /\ ~Stage.group => Len(Stage.branches) = 1
  BY <1>1, ManagerConstants DEF Stage, Branches
<1>3. /\ 1 \in 1..Len(Stage.branches) /\ 1..Len(Stage.branches) \subseteq Branch
      /\ Len(Stage.branches) = 1 => 1..Len(Stage.branches) = {1}
  <2>1. \A n \in Branch : 1 \in 1..n /\ 1..n \subseteq Branch /\ (n = 1 => 1..n = {1})
    BY DEF Branch
  <2> QED BY <2>1, <1>2
<1> QED BY <1>1, <1>2, <1>3

(* The branches of a stage begin.                                           *)
LEMMA LaunchKeeps ==
    ASSUME IInv, RunStep, UNCHANGED <<task, stage, why, result>>,
           Untroubled, Clean', Launch(Branches), next' \in Nat,
           \/ pc' = "agent" /\ ~Stage.group
           \/ pc' = "join" /\ Stage.group /\ next' = 1
    PROVE  IInv'
<1>1. DiskInv' /\ Agreed' /\ VerifiedLast' /\ EarlierAccepted'
  BY Onward DEF IInv, DiskInv, Types
<1>2. Stage' = Stage /\ Branches' = Branches
  BY DEF Stage, Branches
<1>3. /\ 1 \in Branches /\ Branches \subseteq Branch /\ (~Stage.group => Branches = {1})
      /\ \A v \in Branches : ~(v < 1)
  BY StageFacts DEF IInv, Branch
<1>4. /\ wpc' = [w \in Branch |-> IF w \in Branches THEN "start" ELSE "off"]
      /\ fail' = [w \in Branch |-> None]
  BY DEF Launch
<1>5. \A w \in Branch : BranchOK(w)'
  BY <1>2, <1>4 DEF BranchOK, Fits
<1>6. BranchesInv'
  <2>1. why' = None /\ result' = None
    BY DEF Untroubled
  <2>2. pc' = "agent" => OwnThread'
    BY <2>1, <1>2, <1>3, <1>4 DEF OwnThread
  <2>3. pc' = "join" => Workers'
    BY <2>1, <1>2, <1>3 DEF Workers
  <2> QED BY <2>1, <2>2, <2>3, <1>5 DEF BranchesInv
<1>7. FlowInv'
  BY DEF FlowInv
<1> QED BY <1>1, <1>6, <1>7 DEF IInv, ResultInv

LEMMA StageBegins ==
    ASSUME IInv, NEW f \in Fault, BeginStage(f)
    PROVE  IInv'
<1>1. Untroubled /\ Working /\ DiskInv
  BY DEF IInv, FlowInv, BeginStage, Working
<1>2. /\ UNCHANGED <<task, runSeq, runs>>
      /\ UNCHANGED log \/ append("marker", 1, f)
  BY DEF BeginStage, Marked, Goto, FailWith, Raise
<1>3. \/ Raise
      \/ FailWith("record", "internal")
      \/ FailWith("record", "unknown agent")
      \/ /\ Goto(IF Stage.group THEN "group" ELSE "agent")
         /\ f = "none"
  BY DEF BeginStage, Marked, OSFault, Fault
<1>4. IF pc' = "agent" THEN Launch({1}) ELSE UNCHANGED threads
  BY DEF BeginStage
<1>5. "internal" \in Reason /\ "unknown agent" \in Reason
  BY DEF Reason
<1>6. pc' # "agent" => RunStep
  BY <1>1, <1>2, <1>4, Marks DEF IInv
<1>7. CASE Goto(IF Stage.group THEN "group" ELSE "agent") /\ f = "none"
  <2>1. /\ pc' = IF Stage.group THEN "group" ELSE "agent"
        /\ UNCHANGED <<task, stage, next, why, result, runSeq, runs>>
    BY <1>7 DEF Goto
  <2>2. Logged /\ steps' \in Seq(Text) /\ Clean'
    <3>1. CASE UNCHANGED log
      BY <3>1, <2>1, <1>1, SameLogged DEF Untroubled, Clean, file, id, log, DiskInv, Types
    <3>2. CASE append("marker", 1, f)
      BY <3>2, <2>1, <1>1, <1>7, AppendLogged DEF Text, Untroubled
    <3> QED BY <3>1, <3>2, <1>2
  <2>3. CASE Stage.group
    <3>1. RunStep /\ pc' = "group" /\ Stage' = Stage
      BY <2>1, <2>3, <1>6 DEF Stage
    <3>2. DiskInv' /\ Agreed' /\ VerifiedLast' /\ EarlierAccepted'
      BY <3>1, <2>1, <1>1, Onward DEF DiskInv, Types
    <3>3. BranchesInv' /\ FlowInv'
      BY <3>1, <2>1, <2>2, <2>3, <1>1 DEF BranchesInv, FlowInv, Untroubled
    <3> QED BY <3>2, <3>3 DEF IInv, ResultInv
  <2>4. CASE ~Stage.group
    <3>1. pc' = "agent" /\ Launch(Branches) /\ accepted' = accepted
      BY <2>1, <2>4, <1>1, <1>4, StageFacts DEF Launch
    <3>2. /\ wpc' \in [Branch -> AgentPosition]
          /\ fail' \in [Branch -> Reason \union {None, "raised"}]
      BY <3>1 DEF Launch, AgentPosition
    <3>3. RunStep
      BY <3>1, <3>2, <2>1, <2>2, <1>1 DEF RunStep
    <3>4. next' \in Nat
      BY <2>1, <1>1 DEF DiskInv, Types
    <3> QED BY <3>1, <3>3, <3>4, <2>1, <2>2, <2>4, <1>1, LaunchKeeps
  <2> QED BY <2>3, <2>4
<1>8. Raise => pc' # "agent"
  BY DEF Raise
<1>9. \A r \in Reason : FailWith("record", r) => pc' # "agent"
  BY DEF FailWith
<1> QED BY <1>3, <1>5, <1>6, <1>7, <1>8, <1>9, RaiseKeeps, FailKeeps

LEMMA GroupBegins ==
    ASSUME IInv, NEW f \in Fault, BeginGroup(f)
    PROVE  IInv'
<1>1. Untroubled /\ Working /\ DiskInv /\ Stage.group
  BY DEF IInv, FlowInv, BeginGroup, Working
<1>2. /\ UNCHANGED <<task, runSeq, runs, threads>> /\ append("marker", 1, f)
  BY DEF BeginGroup, Marked, GroupFails, FailWith, Raise
<1>3. RunStep
  BY <1>1, <1>2, Marks
<1>4. \/ Raise
      \/ \E p \in {"account", "record"} : FailWith(p, "internal")
      \/ /\ pc' = "mark" /\ next' = 1 /\ f = "none"
         /\ UNCHANGED <<task, stage, why, result, runSeq, runs>>
  BY DEF BeginGroup, Marked, GroupFails, OSFault, Fault
<1>5. "internal" \in Reason
  BY DEF Reason
<1>6. ASSUME pc' = "mark", next' = 1, f = "none",
             UNCHANGED <<task, stage, why, result, runSeq, runs>>
      PROVE  IInv'
  <2>1. DiskInv' /\ Agreed' /\ VerifiedLast' /\ EarlierAccepted'
    BY <1>1, <1>3, <1>6, Onward DEF DiskInv, Types
  <2>2. Clean'
    BY <1>1, <1>2, <1>6, AppendLogged DEF Text, Untroubled
  <2>3. Stage' = Stage /\ Branches' = Branches /\ 1 \in Branches
    BY <1>1, <1>6, StageFacts DEF Stage, Branches
  <2>4. BranchesInv' /\ FlowInv'
    BY <2>2, <2>3, <1>1, <1>6 DEF BranchesInv, FlowInv, Untroubled
  <2> QED BY <2>1, <2>4 DEF IInv, ResultInv
<1> QED BY <1>3, <1>4, <1>5, <1>6, RaiseKeeps, FailKeeps

LEMMA MarkKeeps ==
    ASSUME IInv, NEW f \in Fault, MarkBranch(f)
    PROVE  IInv'
<1>1. Untroubled /\ Working /\ DiskInv /\ Stage.group /\ next \in Branches
  BY DEF IInv, FlowInv, MarkBranch, Working
<1>2. "internal" \in Reason /\ "unknown agent" \in Reason
  BY DEF Reason
<1>3. CASE ~Stage.branches[next].known
  <2>1. UNCHANGED <<task, runSeq, runs, threads, log>>
    BY <1>3 DEF MarkBranch, GroupFails, FailWith
  <2>2. \E p \in {"account", "record"} : FailWith(p, "unknown agent")
    BY <1>3 DEF MarkBranch, GroupFails
  <2> QED BY <2>1, <2>2, <1>1, <1>2, Marks, FailKeeps
<1>4. CASE Stage.branches[next].known
  <2> DEFINE last == next = Len(Stage.branches)
             onward == /\ pc' = (IF last THEN "join" ELSE "mark")
                       /\ next' = (IF last THEN 1 ELSE next + 1)
                       /\ UNCHANGED <<task, stage, why, result, runSeq, runs>>
  <2>1. /\ append("marker", 1, f) /\ UNCHANGED <<task, runSeq, runs>>
        /\ IF pc' = "join" THEN Launch(Branches) ELSE UNCHANGED threads
    BY <1>4 DEF MarkBranch, Marked, GroupFails, FailWith, Raise
  <2>2. \/ Raise
        \/ \E p \in {"account", "record"} : FailWith(p, "internal")
        \/ onward /\ f = "none"
    BY <1>4 DEF MarkBranch, Marked, GroupFails, OSFault, Fault
  <2>3. pc' # "join" => RunStep
    BY <2>1, <1>1, Marks
  <2>4. CASE onward /\ f = "none"
    <3>1. Clean' /\ Logged /\ steps' \in Seq(Text)
      BY <2>1, <2>4, <1>1, AppendLogged DEF Text, Untroubled
    <3>2. Branches = 1..Len(Stage.branches) /\ Len(Stage.branches) \in Nat
      BY <1>1, StageFacts DEF Branch
    <3>3. next' \in Branches /\ next' \in Nat
      BY <2>4, <3>2, <1>1
    <3>4. CASE last
      <4>1. pc' = "join" /\ next' = 1 /\ Launch(Branches) /\ accepted' = accepted
        BY <2>1, <2>4, <3>4 DEF Launch
      <4>2. /\ wpc' \in [Branch -> AgentPosition]
            /\ fail' \in [Branch -> Reason \union {None, "raised"}]
        BY <4>1 DEF Launch, AgentPosition
      <4>3. RunStep
        BY <4>1, <4>2, <3>1, <2>1, <1>1 DEF RunStep
      <4> QED BY <4>1, <4>3, <3>1, <3>3, <2>4, <1>1, LaunchKeeps
    <3>5. CASE ~last
      <4>1. pc' = "mark" /\ RunStep /\ Stage' = Stage /\ Branches' = Branches
        BY <2>3, <2>4, <3>5 DEF Stage, Branches
      <4>2. DiskInv' /\ Agreed' /\ VerifiedLast' /\ EarlierAccepted'
        BY <4>1, <3>3, <2>4, <1>1, Onward DEF DiskInv, Types
      <4>3. BranchesInv' /\ FlowInv'
        BY <4>1, <3>1, <3>3, <2>4, <1>1 DEF BranchesInv, FlowInv, Untroubled
      <4> QED BY <4>2, <4>3 DEF IInv, ResultInv
    <3> QED BY <3>4, <3>5
  <2>5. Raise => pc' # "join"
    BY DEF Raise
  <2>6. \A p \in {"account", "record"} : FailWith(p, "internal") => pc' # "join"
    BY DEF FailWith
  <2> QED BY <2>2, <2>3, <2>4, <2>5, <2>6, <1>2, RaiseKeeps, FailKeeps
<1> QED BY <1>3, <1>4

LEMMA JoinKeeps ==
    ASSUME IInv, Join
    PROVE  IInv'
<1>1. /\ pc = "join" /\ wpc[next] = "done" /\ Working /\ DiskInv /\ Workers
      /\ why = None /\ (\A w \in Branch : BranchOK(w))
      /\ Clean \/ \E w \in Branches : Doomed(w)
  BY DEF Join, IInv, BranchesInv, Working
<1>2. UNCHANGED <<task, stage, why, result, runSeq, runs, log, wpc, fail, accepted>>
  BY DEF Join
<1>3. /\ Branches = 1..Len(Stage.branches) /\ Len(Stage.branches) \in Nat
      /\ next \in Branches
  BY <1>1, StageFacts DEF Branch, Workers
<1>4. RunStep
  <2>1. Logged /\ steps' = steps
    BY <1>1, <1>2, SameLogged DEF log
  <2> QED BY <2>1, <1>1, <1>2 DEF RunStep, DiskInv, Types
<1>5. \/ pc' = "end" /\ next' = next /\ next = Len(Stage.branches)
      \/ pc' = "join" /\ next' = next + 1 /\ next # Len(Stage.branches)
  BY DEF Join
<1>6. next' \in Branches /\ next' \in Nat
  BY <1>3, <1>5
<1>7. DiskInv' /\ Agreed' /\ VerifiedLast' /\ EarlierAccepted'
  BY <1>1, <1>2, <1>4, <1>6, Onward DEF DiskInv, Types
<1>8. Stage' = Stage /\ Branches' = Branches /\ (Clean' <=> Clean)
  BY <1>2 DEF Stage, Branches, Clean, file, id, log
<1>9. \A v \in Branches : v < next' \/ pc' = "end" => wpc[v] = "done"
  BY <1>1, <1>3, <1>5 DEF Workers
<1>10. BranchesInv'
  <2>1. Workers'
    BY <1>1, <1>2, <1>6, <1>8, <1>9 DEF Workers
  <2>2. \A w \in Branch : BranchOK(w)'
    BY <1>1, <1>2, <1>8 DEF BranchOK, Fits
  <2>3. Clean' \/ \E w \in Branches' : Doomed(w)'
    BY <1>1, <1>2, <1>8 DEF Doomed
  <2> QED BY <2>1, <2>2, <2>3, <1>1, <1>2, <1>5 DEF BranchesInv
<1>11. FlowInv'
  BY <1>5 DEF FlowInv
<1> QED BY <1>7, <1>10, <1>11 DEF IInv, ResultInv

(* The first failure in declared order, if there is one.                    *)
LEMMA GroupFailureIs ==
    ASSUME DiskInv
    PROVE  /\ GroupFailure \in Reason \union {None}
           /\ GroupFailure = None => \A w \in Branches : fail[w] = None
<1> DEFINE failed == {w \in Branches : fail[w] # None}
<1>1. \A w \in Branches : fail[w] \in Reason \union {None, "raised"}
  BY StageFacts DEF DiskInv, Types
<1>2. \A w \in failed : ReasonOf(w) \in Reason /\ ReasonOf(w) # None
  BY <1>1, NoneIsNothing DEF ReasonOf, Reason
<1>3. CASE failed = {}
  BY <1>3 DEF GroupFailure
<1>4. CASE failed # {}
  <2> DEFINE First(w) == w \in failed /\ \A v \in failed : w <= v
  <2>1. failed \subseteq 1..2
    BY StageFacts DEF Branch
  <2>2. \E w \in failed : \A v \in failed : w <= v
    <3>1. CASE 1 \in failed
      BY <3>1, <2>1
    <3>2. CASE 1 \notin failed
      BY <3>2, <2>1, <1>4
    <3> QED BY <3>1, <3>2
  <2>3. (CHOOSE w \in failed : \A v \in failed : w <= v) \in failed
    BY <2>2
  <2>4. GroupFailure = ReasonOf(CHOOSE w \in failed : \A v \in failed : w <= v)
    BY <1>4 DEF GroupFailure
  <2> HIDE DEF failed
  <2> QED BY <2>3, <2>4, <1>2
<1> QED BY <1>3, <1>4

LEMMA GroupEnds ==
    ASSUME IInv, NEW f \in Fault, EndGroup(f)
    PROVE  IInv'
<1>1. /\ pc = "end" /\ Working /\ DiskInv /\ Workers /\ why = None /\ result = None
      /\ \A w \in Branch : BranchOK(w)
      /\ Clean \/ \E w \in Branches : Doomed(w)
  BY DEF EndGroup, IInv, BranchesInv, Working, Workers
<1>2. UNCHANGED <<task, runSeq, runs, threads>> /\ append("marker", 1, f)
  BY DEF EndGroup, Marked, GroupFails, FailWith, Goto, Raise
<1>3. RunStep
  BY <1>1, <1>2, Marks
<1>4. \/ Raise
      \/ \E p \in {"account", "record"} : FailWith(p, "internal")
      \/ GroupFailure # None /\ \E p \in {"account", "record"} : FailWith(p, GroupFailure)
      \/ GroupFailure = None /\ Goto(AfterStage) /\ f = "none"
  BY DEF EndGroup, Marked, GroupFails, OSFault, Fault
<1>5. GroupFailure \in Reason \union {None} /\ "internal" \in Reason
  BY <1>1, GroupFailureIs DEF Reason
<1>6. ASSUME GroupFailure = None, Goto(AfterStage), f = "none"
      PROVE  IInv'
  <2>1. \A w \in Branches : fail[w] = None /\ wpc[w] = "done"
    BY <1>1, <1>6, GroupFailureIs DEF Workers
  <2>2. StageAccepted
    BY <1>1, <2>1, StageFacts DEF StageAccepted, BranchOK
  <2>3. Clean
    BY <1>1, <2>1 DEF Doomed
  <2>4. Clean'
    BY <1>1, <1>2, <1>6, <2>3, AppendLogged DEF Text
  <2> QED BY <1>1, <1>3, <1>6, <2>2, <2>4, StageKeeps
<1> QED BY <1>3, <1>4, <1>5, <1>6, RaiseKeeps, FailKeeps

LEMMA AgentEndKeeps ==
    ASSUME IInv, AgentEnds
    PROVE  IInv'
<1>1. /\ pc = "agent" /\ wpc[1] = "done" /\ Working /\ DiskInv /\ OwnThread /\ why = None
      /\ \A w \in Branch : BranchOK(w)
      /\ Clean \/ \E w \in Branches : Doomed(w)
  BY DEF AgentEnds, IInv, BranchesInv, Working
<1>2. Branches = {1} /\ 1 \in Branch /\ fail[1] \in Reason \union {None, "raised"}
  BY <1>1, StageFacts DEF OwnThread, DiskInv, Types
<1>3. UNCHANGED <<task, runSeq, runs, threads, log>>
  BY DEF AgentEnds, Goto, Raise
<1>4. RunStep
  BY <1>1, <1>3, Marks
<1>5. Clean' <=> Clean
  BY <1>3 DEF Clean, file, id, log
<1>6. "raised" # None /\ None \notin Reason /\ "raised" \notin Reason
  BY NoneIsNothing DEF Reason
<1>7. CASE fail[1] = "raised"
  BY <1>4, <1>6, <1>7, RaiseKeeps DEF AgentEnds
<1>8. CASE fail[1] = None
  <2>1. Goto(AfterStage)
    BY <1>6, <1>8 DEF AgentEnds
  <2>2. Clean' /\ StageAccepted /\ result = None
    BY <1>1, <1>2, <1>5, <1>6, <1>8 DEF Doomed, BranchOK, StageAccepted, OwnThread
  <2> QED BY <2>1, <2>2, <1>1, <1>4, StageKeeps
<1>9. CASE fail[1] \in Reason
  <2>1. /\ pc' \in {"account", "returned"}
        /\ UNCHANGED <<task, stage, next, why, result, runSeq, runs>>
    BY <1>6, <1>9 DEF AgentEnds, Goto
  <2>2. result # None
    BY <1>1, <1>9 DEF OwnThread
  <2>3. DiskInv' /\ Agreed' /\ VerifiedLast' /\ EarlierAccepted'
    BY <2>1, <1>1, <1>4, Onward DEF DiskInv, Types
  <2>4. BranchesInv' /\ FlowInv'
    BY <2>1, <2>2 DEF BranchesInv, FlowInv
  <2> QED BY <2>3, <2>4 DEF IInv, ResultInv
<1> QED BY <1>2, <1>7, <1>8, <1>9

LEMMA HandOffKeeps ==
    ASSUME IInv, NEW f \in Fault, NEW fits \in BOOLEAN, HandOff(fits, f)
    PROVE  IInv'
<1>1. Untroubled /\ Working /\ DiskInv /\ StageAccepted /\ ~LastStage
  BY DEF IInv, FlowInv, HandOff, Working
<1>2. /\ UNCHANGED <<task, runSeq, runs, threads>>
      /\ UNCHANGED log \/ append("marker", 1, f)
  BY DEF HandOff, Marked, FailWith, Raise
<1>3. RunStep
  BY <1>1, <1>2, Marks
<1>4. \/ Raise
      \/ FailWith("record", "internal")
      \/ FailWith("record", "hand-off")
      \/ /\ pc' = "stage" /\ stage' = stage + 1 /\ f = "none" /\ append("marker", 1, f)
         /\ UNCHANGED <<task, next, why, result, runSeq, runs>>
  BY DEF HandOff, Marked, OSFault, Fault
<1>5. "internal" \in Reason /\ "hand-off" \in Reason
  BY DEF Reason
<1>6. ASSUME pc' = "stage", stage' = stage + 1, f = "none", append("marker", 1, f),
             UNCHANGED <<task, next, why, result, runSeq, runs>>
      PROVE  IInv'
  <2>1. /\ stage \in 1..Len(task.stages) /\ DOMAIN task.stages = 1..Len(task.stages)
        /\ Len(task.stages) \in Nat
    BY <1>1, StageFacts
  <2>2. stage' \in DOMAIN task.stages
    BY <2>1, <1>1, <1>6 DEF LastStage
  <2>3. DiskInv' /\ Agreed' /\ VerifiedLast'
    BY <2>2, <1>1, <1>3, <1>6, Onward DEF DiskInv, Types
  <2>4. EarlierAccepted'
    <3>1. \A i \in DOMAIN task.stages : i < stage + 1 => i < stage \/ i = stage
      BY <2>1
    <3>2. accepted' = accepted
      BY <1>3 DEF RunStep
    <3>3. \A i \in DOMAIN task.stages : i < stage =>
             \A w \in DOMAIN task.stages[i].branches : <<i, w>> \in accepted
      BY DEF IInv, ResultInv, EarlierAccepted
    <3>4. \A w \in DOMAIN task.stages[stage].branches : <<stage, w>> \in accepted
      BY <1>1 DEF StageAccepted, Branches, Stage
    <3> QED BY <3>1, <3>2, <3>3, <3>4, <1>6 DEF EarlierAccepted
  <2>5. Clean'
    BY <1>1, <1>6, AppendLogged DEF Text, Untroubled
  <2>6. BranchesInv' /\ FlowInv'
    BY <2>5, <1>1, <1>6 DEF BranchesInv, FlowInv, Untroubled
  <2> QED BY <2>3, <2>4, <2>6 DEF IInv, ResultInv
<1> QED BY <1>3, <1>4, <1>5, <1>6, RaiseKeeps, FailKeeps

LEMMA AccountKeeps ==
    ASSUME IInv, NEW f \in Fault, Account(f)
    PROVE  IInv'
<1>1. pc = "account" /\ Working /\ DiskInv
  BY DEF IInv, Account, Working
<1>2. UNCHANGED <<task, runSeq, runs, threads>> /\ append("marker", 1, f)
  BY DEF Account, Marked, FailWith, Goto, Raise
<1>3. RunStep
  BY <1>1, <1>2, Marks
<1>4. \/ Raise
      \/ FailWith("record", "internal")
      \/ /\ pc' = IF result # None THEN "returned"
                  ELSE IF why # None THEN "record" ELSE "seal"
         /\ f = "none"
         /\ UNCHANGED <<task, stage, next, why, result, runSeq, runs>>
  BY DEF Account, Marked, Goto, OSFault, Fault
<1>5. "internal" \in Reason
  BY DEF Reason
<1>6. ASSUME pc' = IF result # None THEN "returned"
                   ELSE IF why # None THEN "record" ELSE "seal",
             f = "none", UNCHANGED <<task, stage, next, why, result, runSeq, runs>>
      PROVE  IInv'
  <2>1. DiskInv' /\ Agreed' /\ VerifiedLast' /\ EarlierAccepted'
    BY <1>1, <1>3, <1>6, Onward DEF DiskInv, Types
  <2>2. BranchesInv'
    BY <1>6 DEF BranchesInv
  <2>3. CASE result # None \/ why # None
    <3>1. pc' \in {"returned", "record"} /\ why \in Reason \union {None}
      BY <2>3, <1>1, <1>6 DEF DiskInv, Types
    <3>2. FlowInv'
      BY <3>1, <2>3, <1>6 DEF FlowInv
    <3> QED BY <3>2, <2>1, <2>2 DEF IInv, ResultInv
  <2>4. CASE result = None /\ why = None
    <3>1. Clean /\ StageAccepted /\ LastStage
      BY <2>4, <1>1 DEF IInv, FlowInv
    <3>2. Clean'
      BY <3>1, <1>1, <1>2, <1>6, AppendLogged DEF Text
    <3>3. StageAccepted' /\ LastStage'
      BY <3>1, <1>3, <1>6 DEF StageAccepted, LastStage, Branches, Stage, RunStep
    <3>4. pc' = "seal"
      BY <2>4, <1>6
    <3>5. FlowInv'
      BY <3>2, <3>3, <3>4, <2>4, <1>6 DEF FlowInv, Untroubled
    <3> QED BY <3>5, <2>1, <2>2 DEF IInv, ResultInv
  <2> QED BY <2>3, <2>4
<1> QED BY <1>3, <1>4, <1>5, <1>6, RaiseKeeps, FailKeeps

(* The two steps with which run itself records the outcome.                 *)
LEMMA OutcomeStep ==
    ASSUME IInv, Working, NEW v \in Verdict, NEW f \in Fault, record_outcome(v, f),
           UNCHANGED <<task, runSeq, runs, steps, threads>>
    PROVE  RunStep
<1>1. DiskInv /\ UNCHANGED <<wpc, fail, accepted>>
  BY DEF IInv, threads
<1>2. Logged
  BY <1>1, OutcomeLogged
<1> QED BY <1>1, <1>2 DEF RunStep, DiskInv, Types

LEMMA FailureRecorded ==
    ASSUME IInv, NEW f \in Fault, RecordFailure(f)
    PROVE  IInv'
<1>1. pc = "record" /\ Working /\ DiskInv /\ why \in Reason
  BY DEF IInv, FlowInv, RecordFailure, Working
<1>2. /\ record_outcome(why, f) /\ UNCHANGED <<task, runSeq, runs, steps, threads>>
  BY DEF RecordFailure, Marked, Return, Raise
<1>3. RunStep
  BY <1>1, <1>2, OutcomeStep DEF Verdict
<1>4. \/ Raise
      \/ Return("internal", FALSE)
      \/ f = "none" /\ Return(why, TRUE)
  BY DEF RecordFailure, Marked, OSFault, Fault
<1>5. ASSUME NEW v \in Reason, NEW stored \in BOOLEAN, Return(v, stored),
             stored => f = "none" /\ v = why
      PROVE  IInv'
  <2> DEFINE o == [verdict |-> v, stored |-> stored]
  <2>1. /\ pc' = "returned" /\ result' = o
        /\ UNCHANGED <<task, stage, next, why, runSeq, runs>>
    BY <1>5 DEF Return
  <2>2. o \in [verdict : Verdict \union {"raised"}, stored : BOOLEAN] /\ o.verdict = v /\ o.stored = stored
    BY DEF Verdict
  <2> HIDE DEF o
  <2>3. o # None /\ v # "verified"
    <3>1. \A q \in [verdict : Verdict \union {"raised"}, stored : BOOLEAN] : q # None
      BY NoneIsNothing
    <3> QED BY <3>1, <2>2 DEF Reason
  <2>4. DiskInv' /\ EarlierAccepted'
    BY <2>1, <2>2, <1>1, <1>3, RunStepDisk DEF DiskInv, Types
  <2>5. Agreed'
    <3>1. stored => Corrupt(file') \/ \E i \in DOMAIN file' : file'[i] = OutcomeOf(v)
      BY <1>1, <1>2, <1>5, OutcomeLogged DEF Verdict
    <3> QED BY <3>1, <2>1, <2>2 DEF Agreed, Stored
  <2>6. BranchesInv' /\ FlowInv' /\ VerifiedLast'
    BY <2>1, <2>2, <2>3 DEF BranchesInv, FlowInv, VerifiedLast
  <2> QED BY <2>4, <2>5, <2>6 DEF IInv, ResultInv
<1> QED BY <1>1, <1>3, <1>4, <1>5, RaiseKeeps DEF Reason

LEMMA SuccessRecorded ==
    ASSUME IInv, NEW f \in Fault, RecordSuccess(f)
    PROVE  IInv'
<1>1. pc = "seal" /\ Working /\ DiskInv /\ Untroubled /\ StageAccepted /\ LastStage
  BY DEF IInv, FlowInv, RecordSuccess, Working
<1>2. /\ record_outcome("verified", f) /\ UNCHANGED <<task, runSeq, runs, steps, threads>>
  BY DEF RecordSuccess, Marked, Return, FailWith, Raise
<1>3. "internal" \in Reason /\ "verified" \in Verdict
  BY DEF Reason, Verdict
<1>4. RunStep
  BY <1>1, <1>2, <1>3, OutcomeStep
<1>5. \/ Raise
      \/ FailWith("record", "internal")
      \/ f = "none" /\ Return("verified", TRUE)
  BY DEF RecordSuccess, Marked, OSFault, Fault
<1>6. ASSUME f = "none", Return("verified", TRUE)
      PROVE  IInv'
  <2> DEFINE o == [verdict |-> "verified", stored |-> TRUE]
  <2>1. /\ pc' = "returned" /\ result' = o
        /\ UNCHANGED <<task, stage, next, why, runSeq, runs>>
    BY <1>6 DEF Return
  <2>2. o \in [verdict : Verdict \union {"raised"}, stored : BOOLEAN] /\ o.verdict = "verified"
    BY DEF Verdict
  <2> HIDE DEF o
  <2>3. o # None
    <3>1. \A q \in [verdict : Verdict \union {"raised"}, stored : BOOLEAN] : q # None
      BY NoneIsNothing
    <3> QED BY <3>1, <2>2
  <2>4. DiskInv' /\ EarlierAccepted'
    BY <2>1, <2>2, <1>1, <1>4, RunStepDisk DEF DiskInv, Types
  <2>5. /\ Corrupt(file') \/ \E i \in DOMAIN file' : file'[i] = OutcomeOf("verified")
        /\ file' = Append([i \in 1..Len(steps) |-> Step(i - 1)], OutcomeOf("verified"))
    BY <1>1, <1>2, <1>3, <1>6, OutcomeLogged DEF Untroubled
  <2>6. Agreed'
    BY <2>5, <2>1, <2>2 DEF Agreed, Stored
  <2>7. StageAccepted' /\ LastStage' /\ steps' = steps
    BY <2>1, <1>1, <1>2 DEF StageAccepted, LastStage, Branches, Stage, threads
  <2>8. VerifiedLast'
    BY <2>1, <2>5, <2>7 DEF VerifiedLast
  <2>9. BranchesInv' /\ FlowInv'
    BY <2>1, <2>3 DEF BranchesInv, FlowInv
  <2> QED BY <2>4, <2>6, <2>8, <2>9 DEF IInv, ResultInv
<1> QED BY <1>3, <1>4, <1>5, <1>6, RaiseKeeps, FailKeeps

(* A new run begins its own file, or finds one there and returns.           *)
LEMMA BeginKeeps ==
    ASSUME IInv, NEW f \in Fault, Begin(f)
    PROVE  IInv' /\ Kept
<1> DEFINE i == <<task.name, runSeq>>
<1>1. DiskInv /\ pc = "idle" /\ runs < MaxRuns
  BY DEF IInv, Begin
<1>2. /\ steps = <<>> /\ why = None /\ result = None /\ stage = 1
      /\ UNCHANGED <<task, stage, next, steps, wpc, fail, accepted>>
      /\ runSeq' = runSeq + 1 /\ runs' = runs + 1
      /\ why' = IF FirstKnown THEN None ELSE "unknown agent"
  BY <1>1 DEF IInv, FlowInv, Begin, threads
<1>3. /\ runs' \in 0..MaxRuns /\ runSeq' \in 0..runs' /\ runSeq' > 0 /\ i \in Files
      /\ id' = i
  <2>1. /\ runs \in 0..MaxRuns /\ runSeq \in 0..runs /\ MaxRuns \in Nat \ {0}
        /\ task \in Tasks /\ runs < MaxRuns /\ runs' = runs + 1 /\ runSeq' = runSeq + 1
    BY <1>1, <1>2, ManagerConstants DEF DiskInv, Types
  <2>2. /\ runs' \in 0..MaxRuns /\ runSeq' \in 0..runs' /\ runSeq' > 0
        /\ runSeq \in 0..(MaxRuns - 1) /\ runSeq' - 1 = runSeq
    BY <2>1
  <2>3. i \in Files
    BY <2>1, <2>2 DEF Files
  <2>4. id' = i
    BY <2>2, <1>2 DEF id
  <2> QED BY <2>2, <2>3, <2>4
<1> HIDE DEF i
<1>4. i \in DOMAIN disk
  BY <1>1, <1>3 DEF DiskInv, Types
<1>5. /\ exists(i) => f = "none"
      /\ result' = CASE exists(i) \/ f = "refused" ->
                          [verdict |-> "internal", stored |-> FALSE]
                    [] OSFault(f) -> Raised
                    [] OTHER      -> None
      /\ pc' = IF exists(i) \/ f # "none" THEN "returned"
               ELSE IF FirstKnown THEN "policy" ELSE "record"
  BY DEF Begin, i
<1>6. /\ disk' = [disk EXCEPT ![i] = disk'[i]]
      /\ disk'[i] # disk[i] => disk[i] = None /\ disk'[i] \in {<<>>, <<Torn>>}
      /\ ~exists(i) /\ f = "none" => disk'[i] = <<>>
  <2> DEFINE new == CASE exists(i) \/ f \in {"refused", "os"} -> disk[i]
                      [] f = "torn" -> <<Torn>>
                      [] OTHER      -> <<>>
  <2>1. disk' = [disk EXCEPT ![i] = new]
    BY DEF Begin, i
  <2>2. \/ new = disk[i] /\ (exists(i) \/ f # "none")
        \/ new \in {<<>>, <<Torn>>} /\ disk[i] = None /\ (f = "none" => new = <<>>)
    BY <1>5 DEF exists, Fault
  <2>3. disk'[i] = new
    BY <2>1, <1>4
  <2> HIDE DEF new
  <2> QED BY <2>1, <2>2, <2>3
<1>7. /\ {<<>>, <<Torn>>} \subseteq Seq(Record)
      /\ \A s \in {<<>>, <<Torn>>} : OneOutcome(s)
  BY DEF OneOutcome, Record, Torn
<1>8. /\ disk' \in [Files -> Seq(Record) \union {None}]
      /\ \A k \in Files : k # i => disk'[k] = disk[k]
      /\ DOMAIN disk = Files
  BY <1>1, <1>3, <1>6, <1>7 DEF DiskInv, Types
<1>9. OneOutcomeEach'
  BY <1>1, <1>6, <1>7, <1>8 DEF DiskInv, OneOutcomeEach
<1>10. Kept
  BY <1>6, <1>8 DEF Kept
<1>11. CASE exists(i) \/ f # "none"
  <2>1. /\ pc' = "returned"
        /\ result' \in {[verdict |-> "internal", stored |-> FALSE], Raised}
    BY <1>5, <1>11 DEF OSFault, Fault
  <2>2. /\ result' \in [verdict : Verdict \union {"raised"}, stored : BOOLEAN]
        /\ result'.verdict # "verified" /\ ~result'.stored
    <3>1. "internal" \in Verdict
      BY DEF Verdict, Reason
    <3>2. ASSUME NEW v \in Verdict \union {"raised"}, v # "verified",
                 result' = [verdict |-> v, stored |-> FALSE]
          PROVE  /\ result' \in [verdict : Verdict \union {"raised"}, stored : BOOLEAN]
                 /\ result'.verdict # "verified" /\ ~result'.stored
      BY <3>2
    <3> QED BY <2>1, <3>1, <3>2 DEF Raised
  <2>3. result' # None
    BY <2>2, NoneIsNothing
  <2>4. why' \in Reason \union {None}
    BY <1>2 DEF Reason
  <2>5. Types'
    BY <2>2, <2>4, <1>1, <1>2, <1>3, <1>8 DEF DiskInv, Types
  <2>6. /\ FileThere' /\ BranchesInv' /\ FlowInv' /\ Agreed' /\ VerifiedLast'
    BY <2>1, <2>2, <2>3 DEF FileThere, Working, Stored, BranchesInv, FlowInv, Agreed, VerifiedLast
  <2>7. EarlierAccepted'
    BY <1>2 DEF IInv, ResultInv, EarlierAccepted
  <2> QED BY <2>5, <2>6, <2>7, <1>9, <1>10 DEF IInv, DiskInv, ResultInv
<1>12. CASE ~exists(i) /\ f = "none"
  <2>1. /\ pc' = IF FirstKnown THEN "policy" ELSE "record"
        /\ result' = None /\ file' = <<>>
    BY <1>3, <1>5, <1>6, <1>12 DEF OSFault, file
  <2>2. <<>> # None
    BY <1>7, NoneIsNothing
  <2>3. why' \in Reason \union {None} /\ (why' = None \/ pc' = "record")
        /\ (pc' = "record" => why' \in Reason) /\ pc' \in {"policy", "record"}
    BY <2>1, <1>2 DEF Reason
  <2>4. Types'
    BY <2>1, <2>3, <1>1, <1>2, <1>3, <1>8 DEF DiskInv, Types
  <2>5. Clean'
    <3>1. Len(steps') = 0
      BY <1>2
    <3> QED BY <3>1, <2>1 DEF Clean
  <2>6. FileThere'
    BY <2>1, <2>2, <1>3 DEF FileThere
  <2>7. BranchesInv' /\ FlowInv' /\ Agreed' /\ VerifiedLast'
    BY <2>1, <2>3, <2>5 DEF BranchesInv, FlowInv, Agreed, Stored, VerifiedLast, Untroubled
  <2>8. EarlierAccepted'
    BY <1>2 DEF IInv, ResultInv, EarlierAccepted
  <2> QED BY <2>4, <2>6, <2>7, <2>8, <1>9, <1>10 DEF IInv, DiskInv, ResultInv
<1> QED BY <1>11, <1>12

LEMMA ResetKeeps ==
    ASSUME IInv, Again \/ Crash
    PROVE  IInv' /\ Kept
<1>1. DiskInv
  BY DEF IInv
<1>2. /\ pc' = "idle" /\ stage' = 1 /\ next' = 1 /\ why' = None /\ result' = None
      /\ steps' = <<>> /\ UNCHANGED <<runs, disk>> /\ task' \in Tasks
      /\ runSeq' \in {runSeq, 0}
      /\ wpc' = [w \in Branch |-> "off"] /\ fail' = [w \in Branch |-> None]
  BY ManagerConstants DEF Again, Crash, Reset, FreshThreads
<1>3. stage' \in DOMAIN task'.stages
  BY <1>2, ManagerConstants
<1>4. Types'
  <2>1. /\ runs' \in 0..MaxRuns /\ runSeq' \in 0..runs'
        /\ disk' \in [Files -> Seq(Record) \union {None}]
    BY <1>1, <1>2 DEF DiskInv, Types
  <2>2. steps' \in Seq(Text) /\ next' \in Nat
    BY <1>2
  <2>3. /\ wpc' \in [Branch -> AgentPosition]
        /\ fail' \in [Branch -> Reason \union {None, "raised"}]
    BY <1>2 DEF AgentPosition
  <2> QED BY <2>1, <2>2, <2>3, <1>2, <1>3 DEF Types
<1>5. FileThere' /\ OneOutcomeEach' /\ BranchesInv' /\ FlowInv' /\ Agreed' /\ VerifiedLast'
  BY <1>1, <1>2 DEF DiskInv, FileThere, Working, Stored, OneOutcomeEach, BranchesInv, FlowInv, Agreed, Stored, VerifiedLast
<1>6. EarlierAccepted'
  <2>1. DOMAIN task'.stages \subseteq Nat \ {0}
    BY <1>2, ManagerConstants
  <2> QED BY <2>1, <1>2 DEF EarlierAccepted
<1>7. Kept
  BY <1>2 DEF Kept
<1> QED BY <1>4, <1>5, <1>6, <1>7 DEF IInv, DiskInv, ResultInv

LEMMA SameKeeps ==
    ASSUME IInv, UNCHANGED vars
    PROVE  IInv' /\ Kept
<1>1. UNCHANGED <<task, pc, stage, next, why, result, runSeq, runs, steps, disk, wpc, fail, accepted>>
  BY DEF vars, main, log, threads
<1>2. Stage' = Stage /\ Branches' = Branches /\ id' = id /\ file' = file
  BY <1>1 DEF Stage, Branches, id, file
<1>3. DiskInv'
  BY <1>1, <1>2 DEF IInv, DiskInv, Types, FileThere, Working, Stored, OneOutcomeEach
<1>4. /\ (Clean' <=> Clean) /\ (StageAccepted' <=> StageAccepted) /\ (LastStage' <=> LastStage)
      /\ (OwnThread' <=> OwnThread) /\ (Workers' <=> Workers)
      /\ \A w \in Branch : (BranchOK(w)' <=> BranchOK(w)) /\ (Doomed(w)' <=> Doomed(w))
  BY <1>1, <1>2 DEF Clean, StageAccepted, LastStage, OwnThread, Workers, BranchOK, Fits, Doomed
<1>5. Branches \subseteq Branch
  BY StageFacts DEF IInv
<1>6. BranchesInv' /\ FlowInv'
  BY <1>1, <1>2, <1>4, <1>5 DEF IInv, BranchesInv, FlowInv, Untroubled
<1>7. ResultInv'
  BY <1>1, <1>2, <1>4 DEF IInv, ResultInv, EarlierAccepted, Agreed, Stored, VerifiedLast
<1>8. Kept
  BY <1>1 DEF Kept
<1> QED BY <1>3, <1>6, <1>7, <1>8 DEF IInv

-----------------------------------------------------------------------------
LEMMA InitIInv == Init => IInv
<1> SUFFICES ASSUME Init PROVE IInv
  OBVIOUS
<1>1. /\ task \in Tasks /\ pc = "idle" /\ stage = 1 /\ next = 1
      /\ why = None /\ result = None /\ runSeq = 0 /\ runs = 0 /\ steps = <<>>
      /\ disk = [i \in Files |-> None]
      /\ wpc = [w \in Branch |-> "off"] /\ fail = [w \in Branch |-> None]
  BY DEF Init, Files
<1>2. DOMAIN task.stages \subseteq Nat \ {0} /\ 1 \in DOMAIN task.stages
  BY <1>1, ManagerConstants
<1>3. Types
  BY <1>1, <1>2, ManagerConstants DEF Types, AgentPosition
<1>4. FileThere /\ OneOutcomeEach /\ BranchesInv /\ FlowInv /\ Agreed /\ VerifiedLast
  BY <1>1 DEF FileThere, Working, OneOutcomeEach, BranchesInv, FlowInv, Agreed, Stored, VerifiedLast
<1>5. EarlierAccepted
  BY <1>1, <1>2 DEF EarlierAccepted
<1> QED BY <1>3, <1>4, <1>5 DEF IInv, DiskInv, ResultInv

(* Every step of run while it works writes at its own file only.            *)
LEMMA StepLogged ==
    ASSUME IInv, MainStep \/ \E w \in Branch : AgentStep(w)
    PROVE  Kept
<1>1. DiskInv
  BY DEF IInv
<1>2. ASSUME NEW w \in Branch, AgentStep(w)
      PROVE  Kept
  <2>1. AgentEffect(w)
    BY <1>2, AgentSteps
  <2> QED BY <2>1, <1>1, LoggedDisk DEF AgentEffect, Working
<1>3. ASSUME MainStep
      PROVE  Kept
  <2>1. Working /\ UNCHANGED <<task, runSeq>>
    BY <1>3 DEF MainStep, EvaluatePolicy, RecordFailure, RecordSuccess, BeginStage,
         BeginGroup, MarkBranch, EndGroup, Account, HandOff, Join, AgentEnds, Working,
         Marked, Goto, FailWith, GroupFails, Raise, Return
  <2>2. \/ UNCHANGED disk
        \/ \E f \in Fault : append("marker", 1, f)
        \/ \E f \in Fault : pc = "record" /\ record_outcome(why, f)
        \/ \E f \in Fault : record_outcome("verified", f)
    BY <1>3 DEF MainStep, EvaluatePolicy, RecordFailure, RecordSuccess, BeginStage,
         BeginGroup, MarkBranch, EndGroup, Account, HandOff, Join, AgentEnds, log
  <2>3. (pc = "record" => why \in Verdict) /\ "verified" \in Verdict /\ "marker" \in Text
    BY DEF IInv, FlowInv, Verdict, Text
  <2>4. Logged
    BY <2>1, <2>2, <2>3, <1>1, SameLogged, AppendLogged, OutcomeLogged
  <2> QED BY <2>1, <2>4, <1>1, LoggedDisk
<1> QED BY <1>2, <1>3

LEMMA NextIInv == IInv /\ [Next]_vars => IInv' /\ Kept
<1> SUFFICES ASSUME IInv, [Next]_vars PROVE IInv' /\ Kept
  OBVIOUS
<1>1. CASE UNCHANGED vars
  BY <1>1, SameKeeps
<1>2. CASE \E f \in Fault : Begin(f)
  BY <1>2, BeginKeeps
<1>3. CASE MainStep
  <2>1. Kept
    BY <1>3, StepLogged
  <2>2. IInv'
    BY <1>3, PolicyKeeps, FailureRecorded, SuccessRecorded, StageBegins, GroupBegins,
       MarkKeeps, GroupEnds, AccountKeeps, HandOffKeeps, JoinKeeps, AgentEndKeeps
       DEF MainStep
  <2> QED BY <2>1, <2>2
<1>4. CASE \E w \in Branch : AgentStep(w)
  BY <1>4, StepLogged, AgentSteps, AgentKeeps
<1>5. CASE Again \/ Crash
  BY <1>5, ResetKeeps
<1>6. CASE Rest
  BY <1>6, SameKeeps DEF Rest
<1> QED BY <1>1, <1>2, <1>3, <1>4, <1>5, <1>6 DEF Next

LEMMA SpecIInv == Spec => []IInv
<1>1. Init => IInv
  BY InitIInv
<1>2. IInv /\ [Next]_vars => IInv'
  BY NextIInv
<1> QED BY <1>1, <1>2, PTL DEF Spec

-----------------------------------------------------------------------------
LEMMA ResultsFollow ==
    ASSUME IInv
    PROVE  ResultsHold
<1>1. /\ DiskInv /\ EarlierAccepted /\ Agreed /\ VerifiedLast
      /\ pc = "returned" => result # None
  BY DEF IInv, ResultInv, FlowInv
<1>2. VerifiedIsComplete
  BY <1>1 DEF VerifiedIsComplete, Returned, VerifiedLast
<1>3. NoPartialSuccess
  <2> SUFFICES ASSUME Returned("verified"), NEW i \in DOMAIN task.stages,
                      NEW w \in DOMAIN task.stages[i].branches
               PROVE  <<i, w>> \in accepted
    BY DEF NoPartialSuccess
  <2>1. StageAccepted /\ stage = Len(task.stages)
    BY <1>1 DEF Returned, VerifiedLast, LastStage
  <2>2. i < stage \/ i = stage
    BY <2>1, <1>1, StageFacts
  <2>3. CASE i < stage
    BY <2>3, <1>1 DEF EarlierAccepted
  <2>4. CASE i = stage
    BY <2>1, <2>4 DEF StageAccepted, Branches, Stage
  <2> QED BY <2>2, <2>3, <2>4
<1>4. OutcomeAgrees
  <2> SUFFICES ASSUME pc = "returned", result.stored, ~Corrupt(file)
               PROVE  /\ Cardinality({i \in DOMAIN file : file[i].kind = "outcome"}) = 1
                      /\ \E i \in DOMAIN file : file[i] = OutcomeOf(result.verdict)
    BY DEF OutcomeAgrees
  <2>1. PICK i \in DOMAIN file : file[i] = OutcomeOf(result.verdict)
    BY <1>1 DEF Agreed, Stored
  <2>2. file[i].kind = "outcome"
    BY <2>1 DEF OutcomeOf
  <2>3. OneOutcome(file)
    <3>1. id \in Files /\ file # None
      <4>1. runSeq > 0 /\ file # None /\ runSeq \in 0..runs /\ runs \in 0..MaxRuns /\ task \in Tasks
        BY <1>1 DEF DiskInv, Types, FileThere, Stored
      <4> QED BY <4>1, ManagerConstants DEF id, Files
    <3> QED BY <3>1, <1>1 DEF DiskInv, OneOutcomeEach, file
  <2>4. {k \in DOMAIN file : file[k].kind = "outcome"} = {i}
    BY <2>2, <2>3 DEF OneOutcome
  <2> QED BY <2>1, <2>4, FS_Singleton
<1> QED BY <1>2, <1>3, <1>4 DEF ResultsHold

(* The trajectory store is append-only: no step of any run, no failed write *)
(* and no restart changes or removes a complete record that is on disk      *)
(* (FileTrajectoryStore.begin, append_step and record_outcome).             *)
THEOREM StoreIsAppendOnly == Spec => RecordsKept
<1>1. IInv /\ [Next]_vars => [Kept]_vars
  BY NextIInv
<1> QED BY <1>1, SpecIInv, PTL DEF Spec, RecordsKept

(* What run returns can be relied on: a verified result was earned by every *)
(* branch of every stage and is on disk with every step, and a result that  *)
(* names its trajectory is the one outcome the file has, unless a torn line *)
(* spoilt the file (Manager.run and _execute_agent).                        *)
THEOREM ResultsAreEarned == Spec => []ResultsHold
<1>1. IInv => ResultsHold
  BY ResultsFollow
<1> QED BY <1>1, SpecIInv, PTL

-----------------------------------------------------------------------------
(* The agents of a run.  A branch asks for as much as its own limit and the *)
(* composition's leave, but checks before it knows what it will get: what   *)
(* it is about to record is Pending.                                        *)
Results == {None, Raised} \union [verdict : Verdict, stored : BOOLEAN]
LimitTypes ==
    /\ pc \in Position /\ next \in Branch
    /\ result \in Results
    /\ faults \in [refused : Nat, os : Nat]
    /\ cancel \in BOOLEAN
    /\ used \in [Branch -> Nat]
    /\ session \in [Branch -> {"none", "open", "closed"}]

Asking == {"ask", "persist", "reject", "request", "execute"}

Within(w, n, p) ==
    /\ n <= Stage.branches[w].max_steps + 1
    /\ p \in Asking => n < Stage.branches[w].max_steps
UsageInv == pc \in {"agent", "join", "end"} => \A w \in Branches : Within(w, used[w], wpc[w])

(* A session is open while its branch is in the loop.                       *)
Looping == Asking \union {"check", "cancel", "close", "verify"}
Leaks(f, e) == f.refused > 0 \/ e
Holds(s, p, f, e) ==
    /\ s = "open" => p \in Looping \/ Leaks(f, e)
    /\ p = "refused" => f.refused > 0
OpenInv ==
    /\ \A w \in Branch : Holds(session[w], wpc[w], faults, escaped)
    /\ pc \notin {"agent", "join"} => \A w \in Branch : wpc[w] \in {"off", "done"}

(* The records of a composition, and those its branches may yet make.       *)
Recorded(s, i) == Cardinality({j \in 1..i : s[j] # "cancelled"})
Pending(p) == CASE p \in {"ask", "request"} -> 2 [] p \in {"persist", "reject", "execute"} -> 1 [] OTHER -> 0
Budget == task.max_steps - 1 + 2 * Cardinality(Branches)
Stops(p, r) == p \in {"check", "execute", "refused"} \/ r # None
Overrun(s) == \E i \in DOMAIN s : s[i] = "work" /\ i >= task.max_steps

Smooth == {"idle", "policy", "stage", "group", "mark", "handoff"}
BudgetInv ==
    Composed =>
        /\ \A i \in DOMAIN steps : steps[i] = "work" => Recorded(steps, i) <= Budget
        /\ Pending(wpc[1]) + Pending(wpc[2]) > 0 =>
              Recorded(steps, Len(steps)) + Pending(wpc[1]) + Pending(wpc[2]) <= Budget
        /\ pc \in {"agent", "join", "end"} /\ Overrun(steps) =>
              \E w \in Branches : Stops(wpc[w], fail[w])
        /\ pc \in Smooth => ~Overrun(steps)

LimitInv == LimitTypes /\ UsageInv /\ OpenInv /\ BudgetInv

(* A branch's step changes its own session and its own count, and no write  *)
(* that fails is forgotten.                                                 *)
FaultsGrow(f) ==
    /\ faults' \in [refused : Nat, os : Nat] /\ faults'.refused >= faults.refused
    /\ f = "refused" => faults'.refused > 0

SessionEffect(w) ==
    /\ session' = [session EXCEPT ![w] = session'[w]] /\ session'[w] \in {"none", "open", "closed"}
    /\ used' = [used EXCEPT ![w] = used'[w]] /\ used'[w] \in Nat
    /\ Within(w, used'[w], wpc'[w])
    /\ Holds(session'[w], wpc'[w], faults', escaped')
    /\ FaultsGrow("none") /\ (escaped => escaped') /\ cancel' = cancel

LEMMA AtLimit ==
    ASSUME IInv, LimitInv, NEW w, Stepping(w)
    PROVE  /\ w \in Branches /\ w \in Branch /\ Stage.branches[w].max_steps \in Nat
           /\ DOMAIN wpc = Branch /\ DOMAIN fail = Branch
           /\ DOMAIN session = Branch /\ session[w] \in {"none", "open", "closed"}
           /\ DOMAIN used = Branch /\ used[w] \in Nat
           /\ session = [session EXCEPT ![w] = session[w]] /\ used = [used EXCEPT ![w] = used[w]]
           /\ Within(w, used[w], wpc[w]) /\ Holds(session[w], wpc[w], faults, escaped)
           /\ task.max_steps \in Nat /\ steps \in Seq(Text) /\ Len(steps) \in Nat
           /\ faults \in [refused : Nat, os : Nat]
<1>1. w \in Branches /\ w \in Branch /\ DOMAIN wpc = Branch /\ DOMAIN fail = Branch
  BY AtStep
<1>2. /\ used \in [Branch -> Nat] /\ session \in [Branch -> {"none", "open", "closed"}]
      /\ faults \in [refused : Nat, os : Nat]
  BY DEF LimitInv, LimitTypes
<1>3. Within(w, used[w], wpc[w]) /\ Holds(session[w], wpc[w], faults, escaped)
  BY <1>1 DEF LimitInv, UsageInv, OpenInv, Stepping
<1>4. task \in Tasks /\ stage \in DOMAIN task.stages /\ steps \in Seq(Text)
  BY DEF IInv, DiskInv, Types
<1>5. task.max_steps \in Nat /\ Stage.branches[w].max_steps \in Nat
  BY <1>1, <1>4, ManagerConstants DEF Stage, Branches
<1>6. session = [session EXCEPT ![w] = session[w]] /\ used = [used EXCEPT ![w] = used[w]]
  BY <1>1, <1>2
<1> QED BY <1>1, <1>2, <1>3, <1>4, <1>5, <1>6

SetRefused(r, v) == [r EXCEPT !.refused = v]
SetOs(r, v) == [r EXCEPT !.os = v]

LEMMA SufferGrows ==
    ASSUME faults \in [refused : Nat, os : Nat], NEW f \in Fault, Suffer(f)
    PROVE  FaultsGrow(f) /\ FaultsGrow("none")
<1>1. PICK a \in Nat, b \in Nat : faults = [refused |-> a, os |-> b]
  OBVIOUS
<1> DEFINE c == IF f = "refused" THEN a + 1 ELSE a
           d == IF OSFault(f) THEN b + 1 ELSE b
<1>2. faults.refused = a /\ faults.os = b
  BY <1>1
<1>3. faults' = SetOs(SetRefused(faults, c), d)
  BY <1>2 DEF Suffer, SetRefused, SetOs
<1>4. c \in Nat /\ d \in Nat /\ c >= a /\ (f = "refused" => c > 0)
  OBVIOUS
<1> HIDE DEF c, d
<1>5. SetRefused(faults, c) = [refused |-> c, os |-> b]
  BY <1>1 DEF SetRefused
<1>6. SetOs([refused |-> c, os |-> b], d) = [refused |-> c, os |-> d]
  BY DEF SetOs
<1>7. faults' = [refused |-> c, os |-> d]
  BY <1>3, <1>5, <1>6
<1>8. faults'.refused = c /\ faults' \in [refused : Nat, os : Nat]
  BY <1>4, <1>7
<1> QED BY <1>2, <1>4, <1>8 DEF FaultsGrow

LEMMA SameFaults ==
    ASSUME faults \in [refused : Nat, os : Nat], UNCHANGED faults
    PROVE  FaultsGrow("none")
<1>1. PICK a \in Nat, b \in Nat : faults = [refused |-> a, os |-> b]
  OBVIOUS
<1> QED BY <1>1 DEF FaultsGrow

(* The ways a step leaves the branch: its loop goes on at p having used n,  *)
(* its session is closed, or it stays as it is.                             *)
LEMMA LoopGoesOn ==
    ASSUME IInv, LimitInv, NEW w, Stepping(w), FaultsGrow("none"), escaped => escaped', cancel' = cancel,
           NEW p, To(w, p), p = "refused" => faults'.refused > 0,
           p \in Looping \/ session[w] # "open" \/ Leaks(faults', escaped'),
           UNCHANGED session,
           \/ UNCHANGED used /\ (p \in Asking => used[w] < Stage.branches[w].max_steps)
           \/ \E n \in {1, 2} : /\ used' = [used EXCEPT ![w] = @ + n] /\ p \notin Asking
                                /\ used[w] + n <= Stage.branches[w].max_steps + 1
    PROVE  SessionEffect(w)
<1>1. wpc'[w] = p /\ session'[w] = session[w]
  BY AtLimit DEF To
<1>2. Holds(session'[w], wpc'[w], faults', escaped')
  BY <1>1 DEF Holds
<1>3. /\ used' = [used EXCEPT ![w] = used'[w]] /\ used'[w] \in Nat
      /\ Within(w, used'[w], wpc'[w])
  <2>1. CASE UNCHANGED used
    BY <1>1, <2>1, AtLimit DEF Within, Asking
  <2>2. ASSUME NEW n \in {1, 2}, used' = [used EXCEPT ![w] = @ + n], p \notin Asking,
               used[w] + n <= Stage.branches[w].max_steps + 1
        PROVE  /\ used' = [used EXCEPT ![w] = used'[w]] /\ used'[w] \in Nat
               /\ Within(w, used'[w], wpc'[w])
    <3>1. used'[w] = used[w] + n /\ used[w] \in Nat
      BY <2>2, AtLimit
    <3>2. used[w] + n \in Nat
      BY <3>1
    <3>3. used' = [used EXCEPT ![w] = used'[w]]
      BY <2>2, <3>1
    <3> QED BY <1>1, <2>2, <3>1, <3>2, <3>3 DEF Within
  <2> QED BY <2>1, <2>2
<1> QED BY <1>1, <1>2, <1>3, AtLimit DEF SessionEffect

LEMMA SessionClosed ==
    ASSUME IInv, LimitInv, NEW w, Stepping(w), FaultsGrow("none"), escaped => escaped', cancel' = cancel,
           NEW p, To(w, p), p \notin Asking \union {"refused"},
           CloseSession(w), UNCHANGED used
    PROVE  SessionEffect(w)
<1>1. /\ wpc'[w] = p /\ session'[w] # "open" /\ session'[w] \in {"none", "open", "closed"}
      /\ session' = [session EXCEPT ![w] = session'[w]]
  BY AtLimit DEF To, CloseSession
<1>2. Holds(session'[w], wpc'[w], faults', escaped')
  BY <1>1 DEF Holds
<1>3. Within(w, used'[w], wpc'[w])
  BY <1>1, AtLimit DEF Within
<1> QED BY <1>1, <1>2, <1>3, AtLimit DEF SessionEffect

(* Leaving the loop with a failure.                                         *)
LEMMA FailureEffect ==
    ASSUME IInv, LimitInv, NEW w, Stepping(w), FaultsGrow("none"), escaped => escaped', cancel' = cancel,
           \/ \E r \in Reason, p \in {"record", "last record"} : Fails(w, r, p)
           \/ Persistence(w, "refused") /\ faults'.refused > 0
           \/ \E r \in Reason : Cancelling(w, r)
    PROVE  SessionEffect(w) /\ fail'[w] # None /\ Pending(wpc'[w]) = 0
<1>1. ASSUME NEW r \in Reason, NEW p \in {"record", "last record"}, Fails(w, r, p)
      PROVE  SessionEffect(w) /\ fail'[w] # None /\ Pending(wpc'[w]) = 0
  <2> DEFINE q == IF Stage.group THEN "done" ELSE p
  <2>1. /\ To(w, q) /\ q \in {"done", "record", "last record"} /\ CloseSession(w) /\ UNCHANGED used
        /\ fail' = [fail EXCEPT ![w] = r]
    BY <1>1 DEF Fails, Failing
  <2>2. q \notin Asking \union {"refused"}
    BY <2>1 DEF Asking
  <2> HIDE DEF q
  <2>3. wpc'[w] = q /\ fail'[w] = r
    BY <2>1, AtLimit DEF To
  <2> QED BY <2>1, <2>2, <2>3, SessionClosed, NoneIsNothing DEF Pending
<1>2. ASSUME Persistence(w, "refused"), faults'.refused > 0
      PROVE  SessionEffect(w) /\ fail'[w] # None /\ Pending(wpc'[w]) = 0
  <2> DEFINE q == IF Stage.group THEN "done" ELSE "refused"
  <2>1. /\ To(w, q) /\ q \in {"done", "refused"} /\ UNCHANGED <<used, session>>
        /\ fail' = [fail EXCEPT ![w] = "internal"]
    BY <1>2 DEF Persistence, Failing
  <2>2. q \notin Asking /\ "internal" # None
    BY <2>1, NoneIsNothing DEF Asking, Reason
  <2> HIDE DEF q
  <2>3. wpc'[w] = q /\ fail'[w] = "internal"
    BY <2>1, AtLimit DEF To
  <2>4. SessionEffect(w)
    BY <1>2, <2>1, <2>2, LoopGoesOn DEF Leaks
  <2> QED BY <2>1, <2>2, <2>3, <2>4 DEF Pending
<1>3. ASSUME NEW r \in Reason, Cancelling(w, r)
      PROVE  SessionEffect(w) /\ fail'[w] # None /\ Pending(wpc'[w]) = 0
  <2>1. /\ To(w, "cancel") /\ UNCHANGED <<used, session>> /\ fail' = [fail EXCEPT ![w] = r]
        /\ "cancel" \in Looping /\ "cancel" \notin Asking
    BY <1>3 DEF Cancelling, Looping, Asking
  <2>2. wpc'[w] = "cancel" /\ fail'[w] = r
    BY <2>1, AtLimit DEF To
  <2>3. SessionEffect(w)
    BY <2>1, LoopGoesOn
  <2> QED BY <2>2, <2>3, NoneIsNothing DEF Pending
<1> QED BY <1>1, <1>2, <1>3

(* What a step of a branch records, against what it was about to.           *)
RecordEffect(w) ==
    \/ /\ steps' = steps
       /\ \/ Composed => Len(steps) < task.max_steps
          \/ /\ Pending(wpc'[w]) <= Pending(wpc[w])
             /\ Stops(wpc[w], fail[w]) => Stops(wpc'[w], fail'[w])
    \/ /\ steps' = Append(steps, "cancelled")
       /\ Pending(wpc'[w]) = 0 /\ Stops(wpc'[w], fail'[w])
    \/ /\ steps' = Append(steps, "work")
       /\ Pending(wpc'[w]) + 1 <= Pending(wpc[w]) /\ Stops(wpc'[w], fail'[w])
LimitEffect(w) == SessionEffect(w) /\ RecordEffect(w)

LEMMA PendingIs == \A p : Pending(p) \in {0, 1, 2}
  BY DEF Pending

(* The steps that write nothing.                                            *)
LEMMA SilentLimits ==
    ASSUME IInv, LimitInv, NEW w \in Branch,
           \/ \E b \in BOOLEAN : Start(w, b) \/ Check(w, b) \/ CloseCancelled(w, b)
           \/ \E item \in Item : NextStep(w, item)
           \/ ToolRaises(w)
    PROVE  LimitEffect(w)
<1>1. /\ Stepping(w) /\ UNCHANGED <<main, log, threadsBut>>
      /\ steps' = steps /\ UNCHANGED <<cancel, escaped>> /\ (escaped => escaped')
  <2>1. Stepping(w)
    BY DEF Start, Check, NextStep, CloseCancelled, ToolRaises, At, Stepping
  <2>2. UNCHANGED <<main, log, threadsBut>>
    BY DEF Start, Check, NextStep, CloseCancelled, ToolRaises
  <2> QED BY <2>1, <2>2 DEF log, threadsBut
<1>2. FaultsGrow("none")
  BY <1>1, AtLimit, SameFaults DEF log
<1>3. BranchOK(w) /\ DOMAIN wpc = Branch /\ DOMAIN fail = Branch
  BY <1>1, AtStep
<1>4. Pending(wpc'[w]) = 0 /\ fail'[w] # None => RecordEffect(w)
  BY <1>1, PendingIs DEF RecordEffect, Stops
<1>5. {"internal", "agent error", "cancelled", "timeout", "step limit"} \subseteq Reason
  BY DEF Reason
<1>6. ASSUME NEW b \in BOOLEAN, Start(w, b)
      PROVE  LimitEffect(w)
  <2>1. wpc[w] = "start" /\ fail[w] = None
    BY <1>3, <1>6 DEF Start, At, BranchOK, Fits
  <2>2. CASE b
    <3>1. /\ To(w, "check") /\ UNCHANGED <<used, fail>> /\ wpc'[w] = "check"
          /\ session' = [session EXCEPT ![w] = "open"] /\ session'[w] = "open"
      BY <1>1, <1>3, <1>6, <2>2, AtLimit DEF Start, To
    <3>2. Within(w, used'[w], wpc'[w]) /\ Holds(session'[w], wpc'[w], faults', escaped')
      BY <1>1, <3>1, AtLimit DEF Within, Asking, Holds, Looping
    <3>3. SessionEffect(w)
      BY <1>1, <1>2, <3>1, <3>2, AtLimit DEF SessionEffect
    <3>4. RecordEffect(w)
      BY <1>1, <2>1, <3>1 DEF RecordEffect, Stops, Pending
    <3> QED BY <3>3, <3>4 DEF LimitEffect
  <2>3. CASE ~b
    <3>1. Fails(w, "internal", "last record")
      BY <1>6, <2>3 DEF Start
    <3> QED BY <3>1, <1>1, <1>2, <1>4, <1>5, FailureEffect DEF LimitEffect
  <2> QED BY <2>2, <2>3
<1>7. ASSUME NEW b \in BOOLEAN, Check(w, b)
      PROVE  LimitEffect(w)
  <2>1. CASE \E r \in {"cancelled", "timeout", "step limit"} : Cancelling(w, r)
    BY <2>1, <1>1, <1>2, <1>4, <1>5, FailureEffect DEF LimitEffect
  <2>2. CASE ~(\E r \in {"cancelled", "timeout", "step limit"} : Cancelling(w, r))
    <3>1. /\ To(w, "ask") /\ UNCHANGED <<used, session, fail>>
          /\ ~OverComposition(w) /\ ~OverStage(w)
      BY <1>7, <2>2 DEF Check
    <3>2. Composed => Len(steps) < task.max_steps
      BY <1>1, <3>1, AtLimit DEF OverComposition
    <3>3. used[w] < Stage.branches[w].max_steps
      BY <1>1, <3>1, AtLimit DEF OverStage
    <3>4. SessionEffect(w)
      <4>1. "ask" \in Looping
        BY DEF Looping, Asking
      <4> QED BY <4>1, <3>1, <3>3, <1>1, <1>2, LoopGoesOn
    <3> QED BY <3>2, <3>4, <1>1 DEF LimitEffect, RecordEffect
  <2> QED BY <2>1, <2>2
<1>8. ASSUME NEW item \in Item, NextStep(w, item)
      PROVE  LimitEffect(w)
  <2>1. wpc[w] = "ask" /\ fail[w] = None
    BY <1>3, <1>8 DEF NextStep, At, BranchOK, Fits
  <2>2. CASE item \in {"late", "error", "unsupported"}
    <3>1. Cancelling(w, "timeout") \/ Fails(w, "agent error", "record")
      BY <1>8, <2>2 DEF NextStep
    <3> QED BY <3>1, <1>1, <1>2, <1>4, <1>5, FailureEffect DEF LimitEffect
  <2>3. CASE item \in {"step", "tool", "result"}
    <3>1. PICK p \in {"persist", "verify", "request", "reject"} : To(w, p) /\ UNCHANGED <<used, session, fail>>
      BY <1>8, <2>3 DEF NextStep
    <3>2. used[w] < Stage.branches[w].max_steps
      BY <1>1, <2>1, AtLimit DEF Within, Asking
    <3>3. SessionEffect(w)
      <4>1. p \in Looping /\ p # "refused"
        BY DEF Looping, Asking
      <4> QED BY <4>1, <3>1, <3>2, <1>1, <1>2, LoopGoesOn
    <3>4. wpc'[w] = p
      BY <3>1, <1>3 DEF To
    <3>5. RecordEffect(w)
      BY <1>1, <2>1, <3>4 DEF RecordEffect, Stops, Pending
    <3> QED BY <3>3, <3>5 DEF LimitEffect
  <2> QED BY <2>2, <2>3 DEF Item
<1>9. ASSUME ToolRaises(w)
      PROVE  LimitEffect(w)
  <2>1. Fails(w, "agent error", "last record")
    BY <1>9 DEF ToolRaises, Excepts
  <2> QED BY <2>1, <1>1, <1>2, <1>4, <1>5, FailureEffect DEF LimitEffect
<1>10. ASSUME NEW b \in BOOLEAN, CloseCancelled(w, b)
       PROVE  LimitEffect(w)
  <2>1. wpc[w] = "close" /\ fail[w] # None
    BY <1>3, <1>10, NoneIsNothing DEF CloseCancelled, At, BranchOK, Fits
  <2> DEFINE p == IF b THEN "forced" ELSE IF Stage.group THEN "done" ELSE "record"
  <2>2. To(w, p) /\ CloseSession(w) /\ UNCHANGED <<used, fail>> /\ p \in {"forced", "done", "record"}
    BY <1>10 DEF CloseCancelled
  <2> HIDE DEF p
  <2>3. p \notin Asking \union {"refused"}
    BY <2>2 DEF Asking
  <2>4. wpc'[w] = p
    BY <2>2, <1>3 DEF To
  <2>5. SessionEffect(w)
    BY <1>1, <1>2, <2>2, <2>3, SessionClosed
  <2> QED BY <1>4, <2>1, <2>2, <2>4, <2>5 DEF LimitEffect, Pending
<1> QED BY <1>6, <1>7, <1>8, <1>9, <1>10

(* The steps that write a record of the branch.                             *)
LEMMA RecordedLimits ==
    ASSUME IInv, LimitInv, NEW w \in Branch, NEW f \in Fault,
           \/ PersistStep(w, f) \/ RejectTool(w, f) \/ RequestTool(w, f)
           \/ ExecuteTool(w, f) \/ Cancel(w, f) \/ Forced(w, f)
    PROVE  LimitEffect(w)
<1>1. /\ Stepping(w) /\ UNCHANGED threadsBut
      /\ UNCHANGED <<cancel, escaped>> /\ (escaped => escaped')
  BY DEF PersistStep, RejectTool, RequestTool, ExecuteTool, Cancel, Forced, At, Stepping, threadsBut
<1>2. \/ append("work", w, f) /\ wpc[w] \in {"persist", "reject", "request", "execute"}
      \/ append("cancelled", w, f) /\ wpc[w] \in {"cancel", "forced"}
  BY DEF PersistStep, RejectTool, RequestTool, ExecuteTool, Cancel, Forced, At
<1>3. FaultsGrow(f) /\ FaultsGrow("none") /\ (f = "refused" => faults'.refused > 0)
  <2>1. Suffer(f)
    BY <1>2 DEF append, write
  <2> QED BY <2>1, <1>1, AtLimit, SufferGrows DEF FaultsGrow
<1>4. BranchOK(w) /\ DOMAIN wpc = Branch /\ DOMAIN fail = Branch
  BY <1>1, AtStep
<1>5. /\ OSFault(f) \/ f = "refused" \/ f = "none"
      /\ ~(OSFault("refused") \/ OSFault("none"))
  BY DEF Fault, OSFault
<1>6. Pending(wpc'[w]) = 0 /\ fail'[w] # None => RecordEffect(w)
  <2>1. wpc[w] \in {"persist", "reject", "request", "execute"} => Pending(wpc[w]) \in {1, 2}
    BY DEF Pending
  <2> QED BY <1>2, <2>1 DEF append, RecordEffect, Stops
<1>7. "internal" \in Reason /\ "agent error" \in Reason
  BY DEF Reason
<1>8. ASSUME \/ Excepts(w) \/ Fails(w, "internal", "record")
             \/ Persistence(w, "refused") /\ f = "refused"
      PROVE  LimitEffect(w)
  <2>1. \/ \E r \in Reason, p \in {"record", "last record"} : Fails(w, r, p)
        \/ Persistence(w, "refused") /\ faults'.refused > 0
    BY <1>3, <1>7, <1>8 DEF Excepts
  <2> QED BY <2>1, <1>1, <1>3, <1>6, FailureEffect DEF LimitEffect
<1>9. ASSUME wpc[w] \in {"persist", "reject", "request", "execute"}, append("work", w, f),
             NEW p \in {"check", "execute", "refused"}, To(w, p), UNCHANGED fail,
             p = "execute" => wpc[w] = "request", SessionEffect(w)
      PROVE  LimitEffect(w)
  <2>1. wpc'[w] = p /\ steps' = Append(steps, "work")
    BY <1>4, <1>9 DEF To, append
  <2>2. Pending(p) + 1 <= Pending(wpc[w])
    BY <1>9 DEF Pending
  <2>3. Stops(p, fail'[w])
    BY DEF Stops
  <2> QED BY <1>9, <2>1, <2>2, <2>3 DEF LimitEffect, RecordEffect
<1>10. wpc[w] \in {"persist", "reject", "request", "execute"} => used[w] < Stage.branches[w].max_steps
  BY <1>1, AtLimit DEF Within, Asking
<1>11. /\ "check" \in Looping /\ "execute" \in Looping /\ "close" \in Looping
       /\ "check" \notin Asking /\ "close" \notin Asking /\ "refused" \notin Asking
  BY DEF Looping, Asking
<1>12. ASSUME NEW n \in {1, 2}, Consumed(w, n), f = "none", append("work", w, f),
              wpc[w] \in {"persist", "reject", "execute"}
       PROVE  LimitEffect(w)
  <2>1. used[w] + n <= Stage.branches[w].max_steps + 1
    BY <1>1, <1>10, <1>12, AtLimit
  <2>2. SessionEffect(w)
    BY <2>1, <1>1, <1>3, <1>11, <1>12, LoopGoesOn DEF Consumed
  <2> QED BY <2>2, <1>9, <1>12 DEF Consumed
<1>13. CASE PersistStep(w, f)
  <2>1. wpc[w] = "persist" /\ append("work", w, f)
    BY <1>13 DEF PersistStep, At
  <2>2. CASE f = "refused"
    <3>1. To(w, "refused") /\ UNCHANGED <<used, session, fail>>
      BY <1>5, <1>13, <2>2 DEF PersistStep
    <3>2. Leaks(faults', escaped') /\ faults'.refused > 0
      BY <1>3, <2>2 DEF Leaks
    <3>3. SessionEffect(w)
      BY <3>1, <3>2, <1>1, <1>3, <1>11, LoopGoesOn
    <3> QED BY <3>1, <3>3, <2>1, <1>9
  <2>3. CASE f = "none"
    <3>1. Consumed(w, 1)
      BY <1>5, <1>13, <2>3 DEF PersistStep
    <3> QED BY <1>12, <2>1, <2>3, <3>1
  <2>4. CASE OSFault(f)
    <3>1. Excepts(w)
      BY <1>5, <1>13, <2>4 DEF PersistStep
    <3> QED BY <3>1, <1>8
  <2> QED BY <1>5, <2>2, <2>3, <2>4
<1>14. CASE RejectTool(w, f)
  BY <1>5, <1>8, <1>12, <1>14 DEF RejectTool, At
<1>15. CASE ExecuteTool(w, f)
  BY <1>5, <1>8, <1>12, <1>15 DEF ExecuteTool, At
<1>16. CASE RequestTool(w, f)
  <2>1. wpc[w] = "request" /\ append("work", w, f)
    BY <1>16 DEF RequestTool, At
  <2>2. CASE f = "none"
    <3>1. To(w, "execute") /\ UNCHANGED <<used, session, fail>>
      BY <1>5, <1>16, <2>2 DEF RequestTool
    <3>2. SessionEffect(w)
      BY <3>1, <2>1, <1>1, <1>3, <1>10, <1>11, LoopGoesOn
    <3> QED BY <3>1, <3>2, <2>1, <1>9
  <2>3. CASE f # "none"
    BY <1>5, <1>8, <1>16, <2>3 DEF RequestTool
  <2> QED BY <2>2, <2>3
<1>17. CASE Cancel(w, f)
  <2>1. fail[w] # None /\ append("cancelled", w, f) /\ wpc[w] = "cancel"
    BY <1>4, <1>17, NoneIsNothing DEF Cancel, At, BranchOK, Fits
  <2>2. CASE f = "none"
    <3>1. To(w, "close") /\ UNCHANGED <<used, session, fail>>
      BY <1>5, <1>17, <2>2 DEF Cancel
    <3>2. SessionEffect(w)
      BY <3>1, <1>1, <1>3, <1>11, LoopGoesOn
    <3>3. wpc'[w] = "close"
      BY <3>1, <1>4 DEF To
    <3> QED BY <3>1, <3>2, <3>3, <2>1, <1>6 DEF LimitEffect, Pending
  <2>3. CASE f # "none"
    BY <1>5, <1>8, <1>17, <2>3 DEF Cancel
  <2> QED BY <2>2, <2>3
<1>18. CASE Forced(w, f)
  <2>1. /\ fail[w] \in Reason /\ fail[w] # None /\ append("cancelled", w, f) /\ wpc[w] = "forced"
    BY <1>4, <1>18, NoneIsNothing DEF Forced, At, BranchOK, Fits
  <2>2. CASE f = "none"
    <3> DEFINE q == IF Stage.group THEN "done" ELSE "record"
    <3>1. /\ To(w, q) /\ UNCHANGED <<used, session>> /\ q \in {"done", "record"}
          /\ fail' = [fail EXCEPT ![w] = fail[w]]
      BY <1>5, <1>18, <2>2 DEF Forced, Failing
    <3> HIDE DEF q
    <3>2. session[w] # "open" \/ Leaks(faults', escaped')
      <4>1. session[w] = "open" => Leaks(faults, escaped)
        BY <1>1, <2>1, AtLimit DEF Holds, Looping, Asking
      <4>2. faults.refused > 0 => faults'.refused > 0
        <5>1. PICK a \in Nat, b \in Nat : faults = [refused |-> a, os |-> b]
          BY <1>1, AtLimit
        <5>2. PICK c \in Nat, d \in Nat : faults' = [refused |-> c, os |-> d]
          BY <1>3 DEF FaultsGrow
        <5> QED BY <5>1, <5>2, <1>3 DEF FaultsGrow
      <4> QED BY <4>1, <4>2, <1>1 DEF Leaks
    <3>3. q \notin Asking /\ q # "refused"
      BY <3>1 DEF Asking
    <3>4. SessionEffect(w)
      BY <3>1, <3>2, <3>3, <1>1, <1>3, LoopGoesOn
    <3>5. wpc'[w] = q /\ fail'[w] = fail[w]
      BY <3>1, <1>4 DEF To
    <3> QED BY <3>1, <3>4, <3>5, <2>1, <1>6 DEF LimitEffect, Pending
  <2>3. CASE f # "none"
    BY <1>5, <1>8, <1>18, <2>3 DEF Forced
  <2> QED BY <2>2, <2>3
<1> QED BY <1>13, <1>14, <1>15, <1>16, <1>17, <1>18

LEMMA LeaksStay ==
    ASSUME faults \in [refused : Nat, os : Nat], FaultsGrow("none"), escaped => escaped',
           Leaks(faults, escaped)
    PROVE  Leaks(faults', escaped')
<1>1. PICK a \in Nat, b \in Nat : faults = [refused |-> a, os |-> b]
  OBVIOUS
<1>2. PICK c \in Nat, d \in Nat : faults' = [refused |-> c, os |-> d]
  BY DEF FaultsGrow
<1>3. c >= a
  BY <1>1, <1>2 DEF FaultsGrow
<1> QED BY <1>1, <1>2, <1>3 DEF Leaks

(* The steps that record an outcome.                                        *)
LEMMA OutcomeLimits ==
    ASSUME IInv, LimitInv, NEW w \in Branch, NEW f \in Fault,
           RecordRefused(w, f) \/ RecordInLoop(w, f) \/ RecordLast(w, f)
    PROVE  LimitEffect(w)
<1>1. /\ Stepping(w) /\ steps' = steps
      /\ UNCHANGED <<cancel, escaped>> /\ (escaped => escaped')
  <2>1. Stepping(w)
    BY DEF RecordRefused, RecordInLoop, RecordLast, At, Stepping
  <2>2. steps' = steps /\ UNCHANGED threadsBut
    BY DEF RecordRefused, RecordInLoop, RecordLast
  <2> QED BY <2>1, <2>2 DEF threadsBut
<1>2. FaultsGrow("none")
  <2>1. Suffer(f) \/ UNCHANGED faults
    BY DEF RecordRefused, RecordInLoop, RecordLast, record_outcome, write
  <2> QED BY <2>1, <1>1, AtLimit, SufferGrows, SameFaults
<1>3. BranchOK(w) /\ DOMAIN wpc = Branch /\ DOMAIN fail = Branch
  BY <1>1, AtStep
<1>4. wpc[w] \in {"refused", "record", "last record"}
  BY DEF RecordRefused, RecordInLoop, RecordLast, At
<1>5. session[w] # "open" \/ Leaks(faults', escaped')
  <2>1. session[w] = "open" => Leaks(faults, escaped)
    BY <1>1, <1>4, AtLimit DEF Holds, Looping, Asking
  <2> QED BY <2>1, <1>1, <1>2, AtLimit, LeaksStay
<1>6. Pending(wpc'[w]) = 0 /\ fail'[w] # None => RecordEffect(w)
  BY <1>1, PendingIs DEF RecordEffect, Stops
<1>7. {"internal", "agent error"} \subseteq Reason /\ "raised" # None /\ "internal" # None
  BY NoneIsNothing DEF Reason
<1>8. "done" \notin Asking /\ Pending("done") = 0
  BY DEF Asking, Pending
<1>9. ASSUME Excepts(w)
      PROVE  LimitEffect(w)
  <2>1. \E r \in Reason, p \in {"record", "last record"} : Fails(w, r, p)
    BY <1>7, <1>9 DEF Excepts
  <2> QED BY <2>1, <1>1, <1>2, <1>6, FailureEffect DEF LimitEffect
<1>10. ASSUME To(w, "done"), UNCHANGED <<used, session>>, fail'[w] # None
       PROVE  LimitEffect(w)
  <2>1. wpc'[w] = "done"
    BY <1>3, <1>10 DEF To
  <2>2. SessionEffect(w)
    BY <1>1, <1>2, <1>5, <1>8, <1>10, LoopGoesOn
  <2> QED BY <2>1, <2>2, <1>6, <1>8, <1>10 DEF LimitEffect
<1>11. CASE RecordRefused(w, f)
  <2>1. CASE OSFault(f)
    BY <1>9, <1>11, <2>1 DEF RecordRefused
  <2>2. CASE ~OSFault(f)
    <3>1. /\ To(w, "done") /\ UNCHANGED <<used, session>>
          /\ fail' = [fail EXCEPT ![w] = "internal"]
      BY <1>11, <2>2 DEF RecordRefused
    <3> QED BY <3>1, <1>3, <1>7, <1>10
  <2> QED BY <2>1, <2>2
<1>12. CASE RecordInLoop(w, f)
  <2>1. fail[w] # None
    BY <1>3, <1>12, NoneIsNothing DEF RecordInLoop, At, BranchOK, Fits
  <2>2. CASE OSFault(f)
    BY <1>9, <1>12, <2>2 DEF RecordInLoop
  <2>3. CASE ~OSFault(f)
    <3>1. To(w, "done") /\ UNCHANGED <<used, session, fail>>
      BY <1>12, <2>3 DEF RecordInLoop
    <3> QED BY <3>1, <2>1, <1>10
  <2> QED BY <2>2, <2>3
<1>13. CASE RecordLast(w, f)
  <2>1. fail[w] # None
    BY <1>3, <1>13, NoneIsNothing DEF RecordLast, At, BranchOK, Fits
  <2>2. /\ To(w, "done") /\ UNCHANGED <<used, session>>
        /\ fail'[w] = IF OSFault(f) THEN "raised" ELSE fail[w]
    BY <1>3, <1>13 DEF RecordLast
  <2> QED BY <2>1, <2>2, <1>7, <1>10
<1> QED BY <1>11, <1>12, <1>13

LEMMA VerifyLimits ==
    ASSUME IInv, LimitInv, NEW w \in Branch,
           NEW says \in {"accepts", "refuses", "raises"}, Verify(w, says)
    PROVE  LimitEffect(w)
<1>1. /\ Stepping(w) /\ steps' = steps /\ wpc[w] = "verify" /\ UNCHANGED <<log, cancel>>
      /\ (escaped => escaped') /\ (says = "raises" => escaped')
  BY DEF Verify, At, Stepping, log
<1>2. FaultsGrow("none") /\ cancel' = cancel
  BY <1>1, AtLimit, SameFaults DEF log
<1>3. fail[w] = None /\ DOMAIN wpc = Branch
  BY <1>1, AtStep DEF BranchOK, Fits
<1>4. Pending(wpc'[w]) = 0 => RecordEffect(w)
  BY <1>1, <1>3 DEF RecordEffect, Stops, Pending
<1>5. "done" \notin Asking \union {"refused"} /\ Pending("done") = 0
  BY DEF Asking, Pending
<1>6. CASE says = "accepts"
  <2>1. CloseSession(w) /\ To(w, "done") /\ UNCHANGED used
    BY <1>6 DEF Verify
  <2>2. wpc'[w] = "done"
    BY <2>1, <1>1, <1>3, AtLimit DEF To
  <2>3. SessionEffect(w)
    BY <2>1, <1>1, <1>2, <1>5, SessionClosed
  <2> QED BY <2>2, <2>3, <1>4, <1>5 DEF LimitEffect
<1>7. CASE says = "refuses"
  <2>1. Fails(w, "verification", "last record") /\ "verification" \in Reason
    BY <1>7 DEF Verify, Reason
  <2> QED BY <2>1, <1>1, <1>2, <1>4, FailureEffect DEF LimitEffect
<1>8. CASE says = "raises"
  <2>1. To(w, "done") /\ UNCHANGED <<used, session>>
    BY <1>8 DEF Verify
  <2>2. wpc'[w] = "done"
    BY <2>1, <1>1, <1>3, AtLimit DEF To
  <2>3. Leaks(faults', escaped')
    BY <1>1, <1>8 DEF Leaks
  <2>4. SessionEffect(w)
    BY <2>1, <2>3, <1>1, <1>2, <1>5, LoopGoesOn
  <2> QED BY <2>2, <2>4, <1>4, <1>5 DEF LimitEffect
<1> QED BY <1>6, <1>7, <1>8

LEMMA AgentLimits ==
    ASSUME IInv, LimitInv, NEW w \in Branch, AgentStep(w)
    PROVE  LimitEffect(w)
  BY SilentLimits, RecordedLimits, OutcomeLimits, VerifyLimits DEF AgentStep

-----------------------------------------------------------------------------
(* Counting the records of a composition.                                   *)
LEMMA RecordedFacts ==
    ASSUME NEW s \in Seq(Text), NEW i \in 0..Len(s)
    PROVE  Recorded(s, i) \in Nat /\ Recorded(s, i) <= i
<1> DEFINE Kept1 == {j \in 1..i : s[j] # "cancelled"}
<1>1. i \in Nat
  OBVIOUS
<1>2. IsFiniteSet(1..i) /\ Cardinality(1..i) = i
  BY <1>1, FS_Interval
<1>3. Kept1 \subseteq 1..i
  OBVIOUS
<1>4. IsFiniteSet(Kept1) /\ Cardinality(Kept1) <= Cardinality(1..i)
  BY <1>2, <1>3, FS_Subset
<1>5. Cardinality(Kept1) \in Nat
  BY <1>4, FS_CardinalityType
<1> QED BY <1>2, <1>4, <1>5 DEF Recorded

LEMMA RecordedAppend ==
    ASSUME NEW s \in Seq(Text), NEW x \in Text, NEW n \in Nat, n = Len(s)
    PROVE  /\ \A i \in 0..n : Recorded(Append(s, x), i) = Recorded(s, i)
           /\ Recorded(Append(s, x), n + 1) = IF x = "cancelled" THEN Recorded(s, n) ELSE Recorded(s, n) + 1
<1> DEFINE t == Append(s, x)
<1>1. (\A j \in 1..n : t[j] = s[j]) /\ t[n + 1] = x
  OBVIOUS
<1> HIDE DEF t
<1>2. ASSUME NEW i \in 0..n
      PROVE  Recorded(t, i) = Recorded(s, i)
  <2>1. {j \in 1..i : t[j] # "cancelled"} = {j \in 1..i : s[j] # "cancelled"}
    <3>1. \A j \in 1..i : t[j] = s[j]
      BY <1>1
    <3> QED BY <3>1
  <2> QED BY <2>1 DEF Recorded
<1> DEFINE Old == {j \in 1..n : s[j] # "cancelled"}
           New == {j \in 1..(n + 1) : t[j] # "cancelled"}
<1>3. IsFiniteSet(Old)
  <2>1. IsFiniteSet(1..n) /\ Old \subseteq 1..n
    BY FS_Interval
  <2> QED BY <2>1, FS_Subset
<1>4. CASE x = "cancelled"
  <2>1. New = Old
    BY <1>1, <1>4
  <2> QED BY <2>1, <1>2, <1>4 DEF Recorded, t
<1>5. CASE x # "cancelled"
  <2>1. New = Old \union {n + 1}
    BY <1>1, <1>5
  <2>2. n + 1 \notin Old
    OBVIOUS
  <2>3. Cardinality(Old \union {n + 1}) = Cardinality(Old) + 1
    BY <2>2, <1>3, FS_AddElement
  <2> QED BY <2>1, <2>3, <1>2, <1>5 DEF Recorded, t
<1> QED BY <1>4, <1>5

LEMMA StageSize ==
    ASSUME DiskInv
    PROVE  /\ \/ Branches = {1} /\ Cardinality(Branches) = 1
              \/ Branches = {1, 2} /\ Cardinality(Branches) = 2
           /\ task.max_steps \in Nat /\ Budget \in Int /\ Budget >= task.max_steps + 1
<1>1. PICK k \in Branch : Branches = 1..k
  BY StageFacts
<1>2. k \in {1, 2} /\ 1..1 = {1} /\ 1..2 = {1, 2}
  BY DEF Branch
<1>3. Cardinality(1..k) = k
  <2>1. k \in Nat /\ k >= 1
    BY <1>2
  <2> QED BY <2>1, FS_Interval
<1>4. task.max_steps \in Nat
  BY StageFacts, ManagerConstants
<1>5. \/ Branches = {1} /\ Cardinality(Branches) = 1
      \/ Branches = {1, 2} /\ Cardinality(Branches) = 2
  BY <1>1, <1>2, <1>3
<1> QED BY <1>4, <1>5 DEF Budget

-----------------------------------------------------------------------------
(* A branch's step keeps the limits.                                        *)
Same(w) == \A v \in Branch : v # w =>
    wpc'[v] = wpc[v] /\ fail'[v] = fail[v] /\ used'[v] = used[v] /\ session'[v] = session[v]

LEMMA AgentFrame ==
    ASSUME IInv, LimitInv, NEW w \in Branch, AgentEffect(w), LimitEffect(w)
    PROVE  /\ Same(w) /\ Stepping(w)
           /\ UNCHANGED <<task, pc, stage, next>> /\ Stage' = Stage /\ Branches' = Branches
           /\ Budget' = Budget /\ (Composed' <=> Composed)
<1>1. UNCHANGED <<task, pc, stage, next>> /\ w \in Branches /\ pc \in {"agent", "join"} /\ wpc[w] # "done"
  BY DEF AgentEffect
<1>2. Stage' = Stage /\ Branches' = Branches /\ (Composed' <=> Composed)
  BY <1>1 DEF Stage, Branches, Composed
<1>3. Budget' = Budget
  BY <1>1, <1>2 DEF Budget, Cardinality
<1>4. wpc[w] # "off"
  BY <1>1 DEF IInv, BranchesInv, BranchOK
<1>5. /\ wpc \in [Branch -> AgentPosition] /\ fail \in [Branch -> Reason \union {None, "raised"}]
      /\ used \in [Branch -> Nat] /\ session \in [Branch -> {"none", "open", "closed"}]
  BY DEF IInv, DiskInv, Types, LimitInv, LimitTypes
<1>6. /\ wpc' = [wpc EXCEPT ![w] = wpc'[w]] /\ fail' = [fail EXCEPT ![w] = fail'[w]]
      /\ used' = [used EXCEPT ![w] = used'[w]] /\ session' = [session EXCEPT ![w] = session'[w]]
  BY DEF AgentEffect, LimitEffect, SessionEffect
<1>7. Same(w)
  BY <1>5, <1>6 DEF Same
<1> QED BY <1>1, <1>2, <1>3, <1>4, <1>7 DEF Stepping

LEMMA AgentKeepsOpen ==
    ASSUME IInv, LimitInv, NEW w \in Branch, AgentEffect(w), LimitEffect(w)
    PROVE  LimitTypes' /\ UsageInv' /\ OpenInv'
<1>1. /\ Same(w) /\ UNCHANGED <<task, pc, stage, next>> /\ Stage' = Stage /\ Branches' = Branches
      /\ Stepping(w)
  BY AgentFrame
<1>2. SessionEffect(w) /\ LimitTypes /\ FaultsGrow("none") /\ (escaped => escaped')
  BY DEF LimitEffect, LimitInv, SessionEffect
<1>3. LimitTypes'
  <2>1. result' \in Results
    <3>1. result' \in [verdict : Reason, stored : BOOLEAN] \union {None}
      BY DEF AgentEffect
    <3>2. \A q \in [verdict : Reason, stored : BOOLEAN] : q \in [verdict : Verdict, stored : BOOLEAN]
      BY DEF Verdict
    <3> QED BY <3>1, <3>2 DEF Results
  <2>2. used' \in [Branch -> Nat] /\ session' \in [Branch -> {"none", "open", "closed"}]
    BY <1>2 DEF SessionEffect, LimitTypes
  <2>3. cancel' \in BOOLEAN
    BY <1>2 DEF SessionEffect, LimitTypes
  <2> QED BY <2>1, <2>2, <2>3, <1>1, <1>2 DEF FaultsGrow, LimitTypes
<1>4. UsageInv'
  <2> SUFFICES ASSUME pc \in {"agent", "join", "end"}, NEW v \in Branches
               PROVE  Within(v, used[v], wpc[v])'
    BY <1>1 DEF UsageInv
  <2>1. v \in Branch
    BY StageFacts DEF IInv
  <2>2. Within(v, used'[v], wpc'[v])
    <3>1. CASE v = w
      BY <3>1, <1>2 DEF SessionEffect
    <3>2. CASE v # w
      <4>1. Within(v, used[v], wpc[v])
        BY DEF LimitInv, UsageInv
      <4> QED BY <3>2, <4>1, <2>1, <1>1 DEF Same
    <3> QED BY <3>1, <3>2
  <2> QED BY <2>2, <1>1 DEF Within
<1>5. OpenInv'
  <2>1. ASSUME NEW v \in Branch
        PROVE  Holds(session'[v], wpc'[v], faults', escaped')
    <3>1. CASE v = w
      BY <3>1, <1>2 DEF SessionEffect
    <3>2. CASE v # w
      <4>1. Holds(session[v], wpc[v], faults, escaped)
        BY DEF LimitInv, OpenInv
      <4>2. Leaks(faults, escaped) => Leaks(faults', escaped')
        BY <1>2, LeaksStay DEF LimitTypes
      <4>3. faults.refused > 0 => faults'.refused > 0
        <5>1. PICK a \in Nat, b \in Nat : faults = [refused |-> a, os |-> b]
          BY <1>2 DEF LimitTypes
        <5>2. PICK c \in Nat, d \in Nat : faults' = [refused |-> c, os |-> d]
          BY <1>2 DEF FaultsGrow
        <5> QED BY <5>1, <5>2, <1>2 DEF FaultsGrow
      <4>4. session'[v] = session[v] /\ wpc'[v] = wpc[v]
        BY <3>2, <1>1 DEF Same
      <4> QED BY <4>1, <4>2, <4>3, <4>4 DEF Holds
    <3> QED BY <3>1, <3>2
  <2>2. \A v \in Branch : Holds(session[v], wpc[v], faults, escaped)'
    BY <2>1
  <2>3. pc' \in {"agent", "join"}
    BY <1>1 DEF Stepping
  <2> QED BY <2>2, <2>3 DEF OpenInv
<1> QED BY <1>3, <1>4, <1>5

(* The budget of a composition over a step of a branch.  What was pending   *)
(* is at most recorded, and a branch that goes over the limit stops.        *)
LEMMA AgentKeepsBudget ==
    ASSUME IInv, LimitInv, NEW w \in Branch, AgentEffect(w), LimitEffect(w)
    PROVE  BudgetInv'
<1>1. /\ Same(w) /\ Stepping(w)
      /\ UNCHANGED <<task, pc, stage, next>> /\ Stage' = Stage /\ Branches' = Branches
      /\ Budget' = Budget /\ (Composed' <=> Composed)
  BY AgentFrame
<1>2. pc \in {"agent", "join"} /\ steps \in Seq(Text) /\ w \in Branches /\ DiskInv
  BY <1>1, AtStep DEF Stepping, IInv, DiskInv, Types
<1>3. /\ \/ Branches = {1} /\ Cardinality(Branches) = 1
         \/ Branches = {1, 2} /\ Cardinality(Branches) = 2
      /\ task.max_steps \in Nat /\ Budget \in Int /\ Budget >= task.max_steps + 1
  BY <1>2, StageSize
<1> DEFINE a == Pending(wpc[1])
           b == Pending(wpc[2])
           c == Pending(wpc'[1])
           d == Pending(wpc'[2])
<1>4. PICK n \in Nat : n = Len(steps)
  BY <1>2
<1>5. a \in 0..2 /\ b \in 0..2 /\ c \in 0..2 /\ d \in 0..2
  BY PendingIs
<1>6. (w = 1 /\ d = b) \/ (w = 2 /\ c = a)
  <2>1. w \in {1, 2} /\ 1 \in Branch /\ 2 \in Branch
    BY DEF Branch
  <2>2. (w = 1 => wpc'[2] = wpc[2]) /\ (w = 2 => wpc'[1] = wpc[1])
    BY <2>1, <1>1 DEF Same
  <2> QED BY <2>1, <2>2
<1>7. Branches = {1} => d = 0
  <2>1. wpc[2] = "off" \/ 2 \in Branches
    BY <1>2 DEF IInv, BranchesInv, BranchOK, Branch
  <2> QED BY <2>1, <1>1, <1>2 DEF Same, Branch, Pending
<1>8. ASSUME Composed
      PROVE  /\ \A i \in DOMAIN steps : steps[i] = "work" => Recorded(steps, i) <= Budget
             /\ a + b > 0 => Recorded(steps, n) + a + b <= Budget
             /\ Overrun(steps) => \E v \in Branches : Stops(wpc[v], fail[v])
  BY <1>2, <1>4, <1>8 DEF LimitInv, BudgetInv
<1>9. \A v \in Branches : Stops(wpc[v], fail[v]) /\ v # w => Stops(wpc'[v], fail'[v])
  BY <1>1, <1>3 DEF Same, Branch
<1>10. SUFFICES ASSUME Composed
       PROVE  /\ \A i \in DOMAIN steps' : steps'[i] = "work" => Recorded(steps', i) <= Budget
              /\ c + d > 0 => Recorded(steps', Len(steps')) + c + d <= Budget
              /\ Overrun(steps') => \E v \in Branches : Stops(wpc'[v], fail'[v])
  <2>1. Recorded(steps, Len(steps))' = Recorded(steps', Len(steps')) /\ Pending(wpc[1])' = c /\ Pending(wpc[2])' = d
    BY DEF Recorded, Pending, Cardinality
  <2>2. \A i : Recorded(steps, i)' = Recorded(steps', i)
    BY DEF Recorded, Cardinality
  <2>3. Overrun(steps)' <=> Overrun(steps')
    BY <1>1 DEF Overrun
  <2>4. \A v : Stops(wpc[v], fail[v])' <=> Stops(wpc'[v], fail'[v])
    BY DEF Stops
  <2> HIDE DEF c, d
  <2> QED BY <2>1, <2>2, <2>3, <2>4, <1>1, <1>2 DEF BudgetInv, Smooth
<1>11. Recorded(steps, n) \in Nat /\ Recorded(steps, n) <= n
  BY <1>2, <1>4, RecordedFacts
<1> HIDE DEF a, b, c, d
<1>12. CASE steps' = steps /\ n < task.max_steps
  <2>1. c + d > 0 => Recorded(steps, n) + c + d <= Budget
    <3>1. c + d <= 2 * Cardinality(Branches)
      BY <1>3, <1>5, <1>7
    <3> QED BY <3>1, <1>3, <1>5, <1>11, <1>12 DEF Budget
  <2>2. ~Overrun(steps)
    BY <1>2, <1>3, <1>4, <1>12 DEF Overrun
  <2> QED BY <2>1, <2>2, <1>4, <1>8, <1>10, <1>12
<1>13. CASE /\ steps' = steps
            /\ Pending(wpc'[w]) <= Pending(wpc[w])
            /\ Stops(wpc[w], fail[w]) => Stops(wpc'[w], fail'[w])
  <2>1. c + d <= a + b
    <3>1. (w = 1 /\ c <= a) \/ (w = 2 /\ d <= b)
      BY <1>13, <1>6 DEF a, b, c, d
    <3> QED BY <3>1, <1>5, <1>6
  <2>2. c + d > 0 => Recorded(steps, n) + c + d <= Budget
    BY <2>1, <1>3, <1>5, <1>8, <1>10, <1>11
  <2>3. Overrun(steps) => \E v \in Branches : Stops(wpc'[v], fail'[v])
    BY <1>2, <1>8, <1>9, <1>10, <1>13
  <2> QED BY <2>2, <2>3, <1>4, <1>8, <1>10, <1>13
<1>14. ASSUME NEW x \in Text, steps' = Append(steps, x), Stops(wpc'[w], fail'[w]),
              x \in {"cancelled", "work"},
              x = "cancelled" => c + d <= a + b,
              x = "work" => a + b > 0 /\ c + d + 1 <= a + b
       PROVE  /\ \A i \in DOMAIN steps' : steps'[i] = "work" => Recorded(steps', i) <= Budget
              /\ c + d > 0 => Recorded(steps', Len(steps')) + c + d <= Budget
              /\ Overrun(steps') => \E v \in Branches : Stops(wpc'[v], fail'[v])
  <2>1. /\ DOMAIN steps' = 1..(n + 1) /\ Len(steps') = n + 1
        /\ \A i \in 1..n : steps'[i] = steps[i]
        /\ steps'[n + 1] = x /\ DOMAIN steps = 1..n
    BY <1>2, <1>4, <1>14
  <2>2. /\ \A i \in 0..n : Recorded(steps', i) = Recorded(steps, i)
        /\ Recorded(steps', n + 1) = IF x = "cancelled" THEN Recorded(steps, n) ELSE Recorded(steps, n) + 1
    BY <1>2, <1>4, <1>14, RecordedAppend
  <2>3. c + d > 0 => Recorded(steps', n + 1) + c + d <= Budget
    BY <2>2, <1>3, <1>5, <1>8, <1>10, <1>11, <1>14
  <2>4. x = "work" => Recorded(steps', n + 1) <= Budget
    BY <2>2, <1>3, <1>5, <1>8, <1>10, <1>11, <1>14
  <2>5. \A i \in 1..(n + 1) : steps'[i] = "work" => Recorded(steps', i) <= Budget
    <3> SUFFICES ASSUME NEW i \in 1..(n + 1), steps'[i] = "work" PROVE Recorded(steps', i) <= Budget
      OBVIOUS
    <3>1. CASE i = n + 1
      BY <3>1, <2>1, <2>4
    <3>2. CASE i # n + 1
      <4>1. i \in 1..n /\ i \in 0..n
        BY <3>2
      <4> QED BY <4>1, <2>1, <2>2, <1>8, <1>10
    <3> QED BY <3>1, <3>2
  <2> QED BY <2>1, <2>3, <2>5, <1>2, <1>14
<1>15. RecordEffect(w)
  BY DEF LimitEffect
<1>16. CASE steps' = Append(steps, "cancelled") /\ Pending(wpc'[w]) = 0 /\ Stops(wpc'[w], fail'[w])
  <2>1. c + d <= a + b
    <3>1. (w = 1 /\ c = 0) \/ (w = 2 /\ d = 0)
      BY <1>16, <1>6 DEF c, d
    <3> QED BY <3>1, <1>5, <1>6
  <2> QED BY <2>1, <1>14, <1>16 DEF Text
<1>17. CASE steps' = Append(steps, "work") /\ Pending(wpc'[w]) + 1 <= Pending(wpc[w]) /\ Stops(wpc'[w], fail'[w])
  <2>1. c + d + 1 <= a + b /\ a + b > 0
    <3>1. (w = 1 /\ c + 1 <= a) \/ (w = 2 /\ d + 1 <= b)
      BY <1>17, <1>6 DEF a, b, c, d
    <3> QED BY <3>1, <1>5, <1>6
  <2> QED BY <2>1, <1>14, <1>17 DEF Text
<1> QED BY <1>4, <1>10, <1>12, <1>13, <1>15, <1>16, <1>17 DEF RecordEffect

-----------------------------------------------------------------------------
(* The steps of run, except for the joining of a group: no branch is at     *)
(* work, and a stage begins only while nothing is over the limit.           *)
Resting == \A w \in Branch : wpc[w] \in {"off", "done"}
MainEffect ==
    /\ UNCHANGED task /\ FaultsGrow("none") /\ Resting
    /\ pc' \in Position /\ next' \in Branch /\ result' \in Results
    /\ steps' \in {steps, Append(steps, "marker")}
    /\ \/ UNCHANGED threads /\ pc' \notin {"agent", "join", "end"}
       \/ (\E ws : Launch(ws)) /\ pc' \in {"agent", "join"}
    /\ Composed /\ (pc' \in Smooth \union {"agent", "join"} \/ stage' # stage) => ~Overrun(steps)

LEMMA BudgetBound ==
    ASSUME NEW t \in Tasks, NEW i \in DOMAIN t.stages
    PROVE  /\ t.max_steps \in Nat
           /\ t.max_steps - 1 + 2 * Cardinality(DOMAIN t.stages[i].branches) >= t.max_steps
           /\ t.max_steps - 1 + 2 * Cardinality(DOMAIN t.stages[i].branches) \in Int
<1>1. PICK k \in Branch : DOMAIN t.stages[i].branches = 1..k
  BY ManagerConstants
<1>2. k \in Nat /\ k >= 1
  BY DEF Branch
<1>3. Cardinality(1..k) = k
  BY <1>2, FS_Interval
<1>4. t.max_steps \in Nat
  BY ManagerConstants
<1> QED BY <1>1, <1>2, <1>3, <1>4

LEMMA MainKeepsBudget ==
    ASSUME IInv, IInv', LimitInv, MainEffect
    PROVE  BudgetInv'
<1>1. steps \in Seq(Text) /\ DiskInv
  BY DEF IInv, DiskInv, Types
<1>2. /\ task' = task /\ stage' \in DOMAIN task'.stages /\ task' \in Tasks
      /\ (Composed' <=> Composed)
  BY DEF MainEffect, IInv, DiskInv, Types, Composed
<1>3. PICK n \in Nat : n = Len(steps)
  BY <1>1
<1>4. DOMAIN steps = 1..n
  BY <1>1, <1>3
<1>5. steps' = steps \/ steps' = Append(steps, "marker")
  BY DEF MainEffect
<1>6. \A i \in DOMAIN steps' : steps'[i] = "work" =>
          i \in 1..n /\ steps[i] = "work" /\ Recorded(steps', i) = Recorded(steps, i)
  <2>1. CASE steps' = steps
    BY <2>1, <1>4
  <2>2. CASE steps' = Append(steps, "marker")
    <3>1. /\ DOMAIN steps' = 1..(n + 1) /\ steps'[n + 1] = "marker"
          /\ \A i \in 1..n : steps'[i] = steps[i]
      BY <2>2, <1>1, <1>3
    <3>2. \A i \in 0..n : Recorded(steps', i) = Recorded(steps, i)
      BY <2>2, <1>1, <1>3, RecordedAppend DEF Text
    <3>3. \A i \in 1..(n + 1) : i = n + 1 \/ (i \in 1..n /\ i \in 0..n)
      OBVIOUS
    <3> QED BY <3>1, <3>2, <3>3
  <2> QED BY <1>5, <2>1, <2>2
<1>7. Overrun(steps)' => Overrun(steps)
  <2>1. Overrun(steps') => Overrun(steps)
    BY <1>4, <1>6 DEF Overrun
  <2> QED BY <2>1, <1>2 DEF Overrun
<1>8. \A w \in Branch : wpc'[w] \in {"off", "done", "start"}
  BY DEF MainEffect, Resting, threads, Launch
<1>9. Pending(wpc'[1]) = 0 /\ Pending(wpc'[2]) = 0
  <2>1. 1 \in Branch /\ 2 \in Branch
    BY DEF Branch
  <2> QED BY <2>1, <1>8 DEF Pending
<1> DEFINE bound == task'.max_steps - 1 + 2 * Cardinality(DOMAIN task'.stages[stage'].branches)
<1>10. bound \in Int /\ bound >= task.max_steps /\ task.max_steps \in Nat
  BY <1>2, BudgetBound
<1>11. Budget' = bound
  BY DEF Budget, Branches, Stage, Cardinality
<1> HIDE DEF bound
<1>12. ASSUME Composed, NEW i \in 1..n, steps[i] = "work"
       PROVE  Recorded(steps, i) <= bound
  <2>1. CASE Overrun(steps)
    <3>1. stage' = stage
      BY <2>1, <1>12 DEF MainEffect
    <3>2. bound = Budget
      BY <3>1, <1>2 DEF bound, Budget, Branches, Stage
    <3>3. Recorded(steps, i) <= Budget
      BY <1>4, <1>12 DEF LimitInv, BudgetInv
    <3> QED BY <3>2, <3>3
  <2>2. CASE ~Overrun(steps)
    <3>1. i < task.max_steps
      BY <2>2, <1>4, <1>10, <1>12 DEF Overrun
    <3>2. i \in 0..Len(steps)
      BY <1>3, <1>12
    <3>3. Recorded(steps, i) \in Nat /\ Recorded(steps, i) <= i
      BY <3>2, <1>1, RecordedFacts
    <3> QED BY <3>1, <3>3, <1>10
  <2> QED BY <2>1, <2>2
<1>13. ASSUME Composed
       PROVE  \A i \in DOMAIN steps' : steps'[i] = "work" => Recorded(steps', i) <= bound
  BY <1>6, <1>12, <1>13
<1>14. Composed /\ pc' \in Smooth \union {"agent", "join", "end"} => ~Overrun(steps)
  BY DEF MainEffect
<1>15. \A i : Recorded(steps, i)' = Recorded(steps', i)
  BY DEF Recorded, Cardinality
<1>16. Pending(wpc[1])' = 0 /\ Pending(wpc[2])' = 0
  BY <1>9 DEF Pending
<1> QED BY <1>2, <1>7, <1>11, <1>13, <1>14, <1>15, <1>16 DEF BudgetInv, Smooth

LEMMA MainKeepsLimits ==
    ASSUME IInv, IInv', LimitInv, MainEffect
    PROVE  LimitInv'
<1>1. BudgetInv'
  BY MainKeepsBudget
<1>2. LimitTypes /\ OpenInv
  BY DEF LimitInv
<1>3. CASE UNCHANGED threads /\ pc' \notin {"agent", "join", "end"}
  <2>1. UNCHANGED <<cancel, wpc, used, session, escaped>>
    BY <1>3 DEF threads
  <2>2. LimitTypes'
    BY <2>1, <1>2 DEF MainEffect, LimitTypes, FaultsGrow
  <2>3. UsageInv'
    BY <1>3 DEF UsageInv
  <2>4. ASSUME NEW v \in Branch
        PROVE  Holds(session[v], wpc[v], faults', escaped)
    <3>1. Holds(session[v], wpc[v], faults, escaped) /\ wpc[v] # "refused"
      BY <1>2 DEF OpenInv, MainEffect, Resting
    <3>2. Leaks(faults, escaped) => Leaks(faults', escaped')
      BY <1>2, <2>1, LeaksStay DEF MainEffect, LimitTypes
    <3> QED BY <3>1, <3>2, <2>1 DEF Holds
  <2>5. OpenInv'
    <3>1. \A v \in Branch : Holds(session[v], wpc[v], faults, escaped)'
      BY <2>1, <2>4
    <3>2. \A v \in Branch : wpc'[v] \in {"off", "done"}
      BY <2>1 DEF MainEffect, Resting
    <3> QED BY <3>1, <3>2 DEF OpenInv
  <2> QED BY <1>1, <2>2, <2>3, <2>5 DEF LimitInv
<1>4. CASE (\E ws : Launch(ws)) /\ pc' \in {"agent", "join"}
  <2>1. /\ \A w \in Branch : wpc'[w] \in {"off", "start"} /\ used'[w] = 0 /\ session'[w] = "none"
        /\ used' = [w \in Branch |-> 0] /\ session' = [w \in Branch |-> "none"]
        /\ UNCHANGED cancel
    BY <1>4 DEF Launch
  <2>2. LimitTypes'
    BY <2>1, <1>2 DEF MainEffect, LimitTypes, FaultsGrow
  <2>3. UsageInv'
    <3> SUFFICES ASSUME NEW v \in Branches'
                 PROVE  Within(v, used[v], wpc[v])'
      BY DEF UsageInv
    <3>1. v \in Branch
      <4>1. task' \in Tasks /\ stage' \in DOMAIN task'.stages
        BY DEF IInv, DiskInv, Types
      <4>2. PICK k \in Branch : Branches' = 1..k
        BY <4>1, ManagerConstants DEF Branches, Stage
      <4> QED BY <4>2 DEF Branch
    <3>2. Stage.branches[v].max_steps' \in Nat
      <4>1. task' \in Tasks /\ stage' \in DOMAIN task'.stages /\ v \in DOMAIN task'.stages[stage'].branches
        BY DEF IInv, DiskInv, Types, Branches, Stage
      <4> QED BY <4>1, ManagerConstants DEF Stage
    <3>3. used'[v] = 0 /\ wpc'[v] \notin Asking
      BY <2>1, <3>1 DEF Asking
    <3> QED BY <3>2, <3>3 DEF Within
  <2>4. \A v \in Branch : Holds(session[v], wpc[v], faults, escaped)'
    BY <2>1 DEF Holds
  <2>5. OpenInv'
    BY <1>4, <2>4 DEF OpenInv
  <2> QED BY <1>1, <2>2, <2>3, <2>5 DEF LimitInv
<1> QED BY <1>3, <1>4 DEF MainEffect

(* A step of run that begins no stage.                                      *)
LEMMA Leaves ==
    ASSUME IInv, LimitInv, Working, Resting, UNCHANGED <<task, stage, threads>>,
           \/ UNCHANGED log
           \/ \E f \in Fault : append("marker", 1, f)
           \/ \E f \in Fault, v \in Verdict : record_outcome(v, f) /\ steps' = steps,
           pc' \in Position \ {"agent", "join", "end"}, next' \in Branch, result' \in Results,
           Composed /\ pc' \in Smooth => ~Overrun(steps)
    PROVE  MainEffect
<1>1. faults \in [refused : Nat, os : Nat]
  BY DEF LimitInv, LimitTypes
<1>2. CASE UNCHANGED log
  <2>1. FaultsGrow("none") /\ steps' = steps
    BY <1>1, <1>2, SameFaults DEF log
  <2> QED BY <2>1, <1>2 DEF MainEffect, Smooth
<1>3. ASSUME NEW f \in Fault, append("marker", 1, f)
      PROVE  MainEffect
  <2>1. Suffer(f) /\ steps' = Append(steps, "marker")
    BY <1>3 DEF append, write
  <2>2. FaultsGrow("none")
    BY <2>1, <1>1, SufferGrows
  <2> QED BY <2>1, <2>2 DEF MainEffect, Smooth
<1>4. ASSUME NEW f \in Fault, NEW v \in Verdict, record_outcome(v, f), steps' = steps
      PROVE  MainEffect
  <2>1. Suffer(f) \/ UNCHANGED faults
    BY <1>4 DEF record_outcome, write
  <2>2. FaultsGrow("none")
    BY <2>1, <1>1, SufferGrows, SameFaults
  <2> QED BY <2>2, <1>4 DEF MainEffect, Smooth
<1> QED BY <1>2, <1>3, <1>4

(* Where the ways out lead.                                                 *)
LEMMA WaysOut ==
    ASSUME LimitInv
    PROVE  /\ Raise => pc' = "returned" /\ result' \in Results /\ next' \in Branch
                       /\ UNCHANGED <<task, stage>>
           /\ \A v \in Verdict, s \in BOOLEAN :
                 Return(v, s) => pc' = "returned" /\ result' \in Results /\ next' \in Branch
                                 /\ UNCHANGED <<task, stage>>
           /\ \A p, r : FailWith(p, r) => pc' = p /\ result' \in Results /\ next' \in Branch
                                          /\ UNCHANGED <<task, stage>>
           /\ \A p : Goto(p) => pc' = p /\ result' \in Results /\ next' \in Branch
                                /\ UNCHANGED <<task, stage>>
           /\ {"record", "account", "returned", "seal"} \subseteq Position \ ({"agent", "join", "end"} \union Smooth)
           /\ Smooth \subseteq Position \ {"agent", "join", "end"}
           /\ "internal" \in Verdict /\ "verified" \in Verdict
<1>1. result \in Results /\ next \in Branch /\ Raised \in Results
  BY DEF LimitInv, LimitTypes, Results
<1>2. \A v \in Verdict, s \in BOOLEAN : [verdict |-> v, stored |-> s] \in Results
  BY DEF Results
<1> QED BY <1>1, <1>2 DEF Raise, Return, FailWith, Goto, Position, Smooth, Verdict, Reason

LEMMA OutsideWorking ==
    ASSUME IInv, LimitInv, pc \notin {"agent", "join", "idle", "returned"}
    PROVE  Working /\ Resting /\ (pc \in Smooth /\ Composed => ~Overrun(steps))
  BY DEF Working, Resting, LimitInv, OpenInv, BudgetInv

LEMMA PolicyLimits ==
    ASSUME IInv, LimitInv, NEW f \in Fault, EvaluatePolicy(f)
    PROVE  MainEffect
<1>1. Working /\ Resting /\ (Composed => ~Overrun(steps)) /\ UNCHANGED threads
  BY OutsideWorking DEF EvaluatePolicy, Smooth
<1>2. UNCHANGED log \/ append("marker", 1, f)
  BY DEF EvaluatePolicy
<1>3. Raise \/ FailWith("record", "internal") \/ FailWith("record", "policy") \/ Goto("stage")
  BY DEF EvaluatePolicy, Marked
<1>4. "stage" \in Smooth
  BY DEF Smooth
<1> QED BY <1>1, <1>2, <1>3, <1>4, WaysOut, Leaves

LEMMA RecordLimits ==
    ASSUME IInv, LimitInv, NEW f \in Fault, RecordFailure(f) \/ RecordSuccess(f)
    PROVE  MainEffect
<1>1. Working /\ Resting /\ UNCHANGED <<threads, steps>>
  BY OutsideWorking DEF RecordFailure, RecordSuccess
<1>2. pc = "record" => why \in Verdict
  BY DEF IInv, FlowInv, Verdict
<1>3. \E v \in Verdict : record_outcome(v, f) /\ steps' = steps
  BY <1>1, <1>2, WaysOut DEF RecordFailure, RecordSuccess
<1>4. \/ Raise \/ FailWith("record", "internal")
      \/ \E v \in Verdict, s \in BOOLEAN : Return(v, s)
  BY <1>2, WaysOut DEF RecordFailure, RecordSuccess, Marked
<1> QED BY <1>1, <1>3, <1>4, WaysOut, Leaves

LEMMA BeginGroupLimits ==
    ASSUME IInv, LimitInv, NEW f \in Fault, BeginGroup(f)
    PROVE  MainEffect
<1>1. Working /\ Resting /\ (Composed => ~Overrun(steps)) /\ UNCHANGED threads
  BY OutsideWorking DEF BeginGroup, Smooth
<1>2. append("marker", 1, f)
  BY DEF BeginGroup
<1>3. \/ Raise \/ FailWith("record", "internal") \/ FailWith("account", "internal")
      \/ /\ pc' = "mark" /\ next' = 1
         /\ UNCHANGED <<task, stage, why, result, runSeq, runs>>
  BY DEF BeginGroup, Marked, GroupFails
<1>4. "mark" \in Smooth /\ 1 \in Branch /\ result \in Results
  BY DEF Smooth, Branch, LimitInv, LimitTypes
<1> QED BY <1>1, <1>2, <1>3, <1>4, WaysOut, Leaves

LEMMA AccountLimits ==
    ASSUME IInv, LimitInv, NEW f \in Fault, Account(f)
    PROVE  MainEffect
<1>1. Working /\ Resting /\ UNCHANGED threads
  BY OutsideWorking DEF Account
<1>2. append("marker", 1, f)
  BY DEF Account
<1>3. \/ Raise \/ FailWith("record", "internal")
      \/ \E p \in {"returned", "record", "seal"} : Goto(p)
  BY DEF Account, Marked
<1> QED BY <1>1, <1>2, <1>3, WaysOut, Leaves

LEMMA EndLimits ==
    ASSUME IInv, LimitInv, NEW f \in Fault, EndGroup(f)
    PROVE  MainEffect
<1>1. Working /\ Resting /\ UNCHANGED threads /\ pc = "end" /\ DiskInv /\ Workers
  BY OutsideWorking DEF EndGroup, IInv, BranchesInv
<1>2. append("marker", 1, f)
  BY DEF EndGroup
<1>3. \/ Raise
      \/ \E p \in {"record", "account"}, r \in Reason : FailWith(p, r)
      \/ Goto(AfterStage) /\ GroupFailure = None
  BY <1>1, GroupFailureIs DEF EndGroup, Marked, GroupFails, Reason
<1>4. GroupFailure = None /\ Composed => ~Overrun(steps)
  <2> SUFFICES ASSUME GroupFailure = None, Composed, Overrun(steps) PROVE FALSE
    OBVIOUS
  <2>1. PICK v \in Branches : Stops(wpc[v], fail[v])
    BY <1>1 DEF LimitInv, BudgetInv
  <2>2. fail[v] = None /\ wpc[v] = "done"
    BY <1>1, GroupFailureIs DEF Workers
  <2> QED BY <2>1, <2>2 DEF Stops
<1>5. AfterStage \in {"seal", "account", "handoff"} /\ "handoff" \in Smooth
  BY DEF AfterStage, Smooth
<1> QED BY <1>1, <1>2, <1>3, <1>4, <1>5, WaysOut, Leaves

LEMMA AgentEndLimits ==
    ASSUME IInv, LimitInv, AgentEnds
    PROVE  MainEffect
<1>1. /\ Working /\ DiskInv /\ UNCHANGED <<threads, log>> /\ pc = "agent" /\ wpc[1] = "done"
      /\ OwnThread /\ \A w \in Branch : BranchOK(w)
  BY DEF AgentEnds, IInv, BranchesInv, Working
<1>2. Branches = {1}
  BY <1>1, StageFacts DEF OwnThread
<1>3. Resting
  BY <1>1, <1>2 DEF Resting, BranchOK
<1>4. \/ Raise \/ Goto("account") \/ Goto("returned")
      \/ Goto(AfterStage) /\ fail[1] = None
  BY DEF AgentEnds
<1>5. fail[1] = None /\ Composed => ~Overrun(steps)
  BY <1>1, <1>2 DEF LimitInv, BudgetInv, Stops
<1>6. AfterStage \in {"seal", "account", "handoff"} /\ "handoff" \in Smooth
  BY DEF AfterStage, Smooth
<1> QED BY <1>1, <1>3, <1>4, <1>5, <1>6, WaysOut, Leaves

LEMMA HandOffLimits ==
    ASSUME IInv, LimitInv, NEW f \in Fault, NEW fits \in BOOLEAN, HandOff(fits, f)
    PROVE  MainEffect
<1>1. Working /\ Resting /\ (Composed => ~Overrun(steps)) /\ UNCHANGED threads
  BY OutsideWorking DEF HandOff, Smooth
<1>2. UNCHANGED log \/ append("marker", 1, f)
  BY DEF HandOff
<1>3. \/ Raise \/ FailWith("record", "internal") \/ FailWith("record", "hand-off")
      \/ /\ pc' = "stage"
         /\ UNCHANGED <<task, next, why, result, runSeq, runs>> /\ append("marker", 1, f)
  BY DEF HandOff, Marked
<1>4. CASE /\ pc' = "stage"
           /\ UNCHANGED <<task, next, why, result, runSeq, runs>> /\ append("marker", 1, f)
  <2>1. Suffer(f) /\ steps' = Append(steps, "marker")
    BY <1>4 DEF append, write
  <2>2. FaultsGrow("none")
    BY <2>1, SufferGrows DEF LimitInv, LimitTypes
  <2>3. result' \in Results /\ next' \in Branch
    BY <1>4 DEF LimitInv, LimitTypes
  <2> QED BY <1>1, <1>4, <2>1, <2>2, <2>3 DEF MainEffect, Position
<1> QED BY <1>1, <1>2, <1>3, <1>4, WaysOut, Leaves

LEMMA StageLimits ==
    ASSUME IInv, LimitInv, NEW f \in Fault, BeginStage(f)
    PROVE  MainEffect
<1>1. Working /\ Resting /\ (Composed => ~Overrun(steps))
  BY OutsideWorking DEF BeginStage, Smooth
<1>2. UNCHANGED log \/ append("marker", 1, f)
  BY DEF BeginStage
<1>3. \/ Raise \/ FailWith("record", "internal") \/ FailWith("record", "unknown agent")
      \/ Goto("group") \/ Goto("agent")
  BY DEF BeginStage, Marked
<1>4. IF pc' = "agent" THEN Launch({1}) ELSE UNCHANGED threads
  BY DEF BeginStage
<1>5. CASE Goto("agent")
  <2>1. FaultsGrow("none") /\ steps' \in {steps, Append(steps, "marker")}
    <3>1. faults \in [refused : Nat, os : Nat]
      BY DEF LimitInv, LimitTypes
    <3>2. CASE UNCHANGED log
      BY <3>1, <3>2, SameFaults DEF log
    <3>3. CASE append("marker", 1, f)
      BY <3>1, <3>3, SufferGrows DEF append, write
    <3> QED BY <3>2, <3>3, <1>2
  <2>2. pc' = "agent" /\ result' \in Results /\ next' \in Branch /\ UNCHANGED <<task, stage>>
    BY <1>5, WaysOut
  <2>3. \E ws : Launch(ws)
    BY <2>2, <1>4
  <2> QED BY <1>1, <2>1, <2>2, <2>3 DEF MainEffect, Position
<1>6. CASE ~Goto("agent")
  <2>1. /\ pc' \in {"returned", "record", "group"} /\ result' \in Results /\ next' \in Branch
        /\ UNCHANGED <<task, stage>> /\ UNCHANGED threads
    BY <1>3, <1>4, <1>6, WaysOut
  <2>2. "group" \in Smooth
    BY DEF Smooth
  <2> QED BY <1>1, <1>2, <2>1, <2>2, WaysOut, Leaves
<1> QED BY <1>5, <1>6

LEMMA MarkLimits ==
    ASSUME IInv, LimitInv, NEW f \in Fault, MarkBranch(f)
    PROVE  MainEffect
<1>1. /\ Working /\ Resting /\ (Composed => ~Overrun(steps)) /\ DiskInv /\ next \in Branches
      /\ result \in Results
  BY OutsideWorking DEF MarkBranch, Smooth, IInv, FlowInv, LimitInv, LimitTypes
<1>2. "mark" \in Smooth
  BY DEF Smooth
<1>3. CASE ~Stage.branches[next].known
  <2>1. /\ UNCHANGED <<log, threads>>
        /\ FailWith("record", "unknown agent") \/ FailWith("account", "unknown agent")
    BY <1>3 DEF MarkBranch, GroupFails
  <2> QED BY <2>1, <1>1, WaysOut, Leaves
<1>4. CASE Stage.branches[next].known
  <2> DEFINE last == next = Len(Stage.branches)
  <2>1. /\ append("marker", 1, f)
        /\ IF pc' = "join" THEN Launch(Branches) ELSE UNCHANGED threads
    BY <1>4 DEF MarkBranch
  <2>2. \/ Raise \/ FailWith("record", "internal") \/ FailWith("account", "internal")
        \/ /\ pc' = (IF last THEN "join" ELSE "mark")
           /\ next' = (IF last THEN 1 ELSE next + 1)
           /\ UNCHANGED <<task, stage, why, result, runSeq, runs>>
    BY <1>4 DEF MarkBranch, Marked, GroupFails
  <2>3. CASE Raise \/ FailWith("record", "internal") \/ FailWith("account", "internal")
    <3>1. /\ pc' \in {"returned", "record", "account"} /\ result' \in Results /\ next' \in Branch
          /\ UNCHANGED <<task, stage>>
      BY <2>3, WaysOut
    <3> QED BY <3>1, <2>1, <1>1, WaysOut, Leaves
  <2>4. CASE /\ pc' = (IF last THEN "join" ELSE "mark")
             /\ next' = (IF last THEN 1 ELSE next + 1)
             /\ UNCHANGED <<task, stage, why, result, runSeq, runs>>
    <3>1. next' \in Branch /\ result' \in Results
      <4>1. Branches = 1..Len(Stage.branches) /\ Len(Stage.branches) \in {1, 2}
        BY <1>1, StageFacts DEF Branch
      <4>2. PICK n \in {1, 2} : n = Len(Stage.branches)
        BY <4>1
      <4>3. next \in 1..n /\ (last <=> next = n)
        BY <4>1, <4>2, <1>1
      <4>4. next' = (IF last THEN 1 ELSE next + 1) /\ result' = result
        BY <2>4
      <4> HIDE DEF last
      <4>5. CASE last
        BY <4>4, <4>5, <1>1 DEF Branch
      <4>6. CASE ~last
        <5>1. next' = next + 1
          BY <4>4, <4>6
        <5>2. next # n /\ next \in 1..n /\ (n = 1 \/ n = 2)
          BY <4>2, <4>3, <4>6
        <5>3. next = 1
          BY <5>2
        <5> QED BY <5>1, <5>3, <4>4, <1>1 DEF Branch
      <4> QED BY <4>5, <4>6
    <3>2. CASE last
      <4>1. Suffer(f) /\ steps' = Append(steps, "marker")
        BY <2>1 DEF append, write
      <4>2. FaultsGrow("none")
        BY <4>1, SufferGrows DEF LimitInv, LimitTypes
      <4>3. pc' = "join" /\ (\E ws : Launch(ws)) /\ UNCHANGED <<task, stage>>
        BY <2>1, <2>4, <3>2
      <4> QED BY <1>1, <3>1, <4>1, <4>2, <4>3 DEF MainEffect, Position
    <3>3. CASE ~last
      <4>1. pc' = "mark" /\ UNCHANGED threads /\ UNCHANGED <<task, stage>>
        BY <2>1, <2>4, <3>3
      <4> QED BY <1>1, <1>2, <2>1, <3>1, <4>1, WaysOut, Leaves
    <3> QED BY <3>2, <3>3
  <2> QED BY <2>2, <2>3, <2>4
<1> QED BY <1>3, <1>4

LEMMA BeginLimits ==
    ASSUME IInv, LimitInv, NEW f \in Fault, Begin(f)
    PROVE  MainEffect
<1>1. /\ pc = "idle" /\ UNCHANGED <<task, stage, next, steps, threads>> /\ Suffer(f)
      /\ pc' \in {"returned", "policy", "record"}
  BY DEF Begin
<1>2. result' \in Results
  <2> DEFINE there == exists(<<task.name, runSeq>>)
  <2>1. /\ there => f = "none"
        /\ result' = CASE there \/ f = "refused" -> [verdict |-> "internal", stored |-> FALSE]
                       [] OSFault(f) -> Raised
                       [] OTHER -> None
    BY DEF Begin
  <2>3. f \in {"none", "refused"} => ~OSFault(f)
    BY DEF OSFault
  <2>2. [verdict |-> "internal", stored |-> FALSE] \in Results
    BY DEF Results, Verdict, Reason
  <2> HIDE DEF there
  <2> QED BY <2>1, <2>2, <2>3 DEF Results
<1>3. Resting /\ (Composed => ~Overrun(steps)) /\ next \in Branch
  BY <1>1 DEF LimitInv, OpenInv, BudgetInv, Resting, Smooth, LimitTypes
<1>4. FaultsGrow("none")
  BY <1>1, SufferGrows DEF LimitInv, LimitTypes
<1> QED BY <1>1, <1>2, <1>3, <1>4 DEF MainEffect, Position

LEMMA JoinLimits ==
    ASSUME IInv, LimitInv, Join
    PROVE  LimitInv'
<1>1. /\ pc = "join" /\ wpc[next] = "done" /\ DiskInv /\ Workers /\ (\A w \in Branch : BranchOK(w))
      /\ cancel \in BOOLEAN
  BY DEF Join, IInv, BranchesInv, LimitInv, LimitTypes
<1>2. /\ UNCHANGED <<task, stage, result, steps, faults, wpc, used, session, fail, escaped>>
      /\ cancel' = (cancel \/ fail[next] = "raised")
  BY DEF Join, log
<1>3. /\ Stage' = Stage /\ Branches' = Branches /\ Budget' = Budget /\ (Composed' <=> Composed)
  BY <1>2 DEF Stage, Branches, Budget, Composed, Cardinality
<1>4. PICK n \in {1, 2} : n = Len(Stage.branches)
  BY <1>1, StageFacts DEF Branch
<1>5. Branches = 1..n /\ next \in 1..n
  BY <1>1, <1>4, StageFacts DEF Workers
<1>6. \/ pc' = "end" /\ next' = next /\ next = n
      \/ pc' = "join" /\ next' = next + 1 /\ next # n
  BY <1>4 DEF Join
<1>7. next' \in Branch /\ cancel' \in BOOLEAN
  <2>1. next' \in Branch
    BY <1>5, <1>6 DEF Branch
  <2> QED BY <2>1, <1>1, <1>2
<1>8. LimitTypes'
  BY <1>2, <1>6, <1>7 DEF LimitInv, LimitTypes, Position
<1>9. UsageInv'
  <2>1. \A v \in Branches : Within(v, used[v], wpc[v])
    BY <1>1 DEF LimitInv, UsageInv
  <2> QED BY <2>1, <1>2, <1>3 DEF UsageInv, Within
<1>10. OpenInv'
  <2>1. \A v \in Branch : Holds(session[v], wpc[v], faults, escaped)
    BY DEF LimitInv, OpenInv
  <2>2. \A v \in Branch : Holds(session[v], wpc[v], faults, escaped)'
    BY <2>1, <1>2 DEF Holds, Leaks
  <2>3. pc' = "end" => \A v \in Branch : wpc[v] \in {"off", "done"}
    <3> SUFFICES ASSUME pc' = "end", NEW v \in Branch PROVE wpc[v] \in {"off", "done"}
      OBVIOUS
    <3>1. v \notin Branches => wpc[v] = "off"
      BY <1>1 DEF BranchOK
    <3>2. v \in Branches => v = next \/ v < next
      BY <1>5, <1>6
    <3> QED BY <3>1, <3>2, <1>1 DEF Workers
  <2> QED BY <2>2, <2>3, <1>2, <1>6 DEF OpenInv
<1>11. BudgetInv'
  <2>1. ASSUME Composed
        PROVE  /\ \A i \in DOMAIN steps : steps[i] = "work" => Recorded(steps, i) <= Budget
               /\ Pending(wpc[1]) + Pending(wpc[2]) > 0 =>
                     Recorded(steps, Len(steps)) + Pending(wpc[1]) + Pending(wpc[2]) <= Budget
               /\ Overrun(steps) => \E w \in Branches : Stops(wpc[w], fail[w])
    BY <1>1, <2>1 DEF LimitInv, BudgetInv
  <2>2. pc' \notin Smooth
    BY <1>6 DEF Smooth
  <2>3. \A i : Recorded(steps, i)' = Recorded(steps, i)
    BY <1>2 DEF Recorded, Cardinality
  <2>4. /\ Pending(wpc[1])' = Pending(wpc[1]) /\ Pending(wpc[2])' = Pending(wpc[2])
        /\ (Overrun(steps)' <=> Overrun(steps)) /\ Recorded(steps, Len(steps))' = Recorded(steps, Len(steps))
        /\ \A w : Stops(wpc[w], fail[w])' <=> Stops(wpc[w], fail[w])
    BY <1>2, <2>3 DEF Pending, Overrun, Stops
  <2> QED BY <2>1, <2>2, <2>3, <2>4, <1>2, <1>3 DEF BudgetInv, Smooth
<1> QED BY <1>8, <1>9, <1>10, <1>11 DEF LimitInv

LEMMA ResetLimits ==
    ASSUME LimitInv, Again \/ Crash
    PROVE  LimitInv'
<1>1. /\ pc' = "idle" /\ next' = 1 /\ result' = None /\ steps' = <<>> /\ UNCHANGED faults
      /\ cancel' = FALSE /\ wpc' = [w \in Branch |-> "off"] /\ used' = [w \in Branch |-> 0]
      /\ session' = [w \in Branch |-> "none"]
  BY DEF Again, Crash, Reset, FreshThreads
<1>2. LimitTypes'
  <2>1. used' \in [Branch -> Nat] /\ session' \in [Branch -> {"none", "open", "closed"}]
    BY <1>1
  <2>2. result' \in Results /\ pc' \in Position /\ next' \in Branch
    BY <1>1 DEF Results, Position, Branch
  <2> QED BY <2>1, <2>2, <1>1 DEF LimitInv, LimitTypes
<1>3. UsageInv'
  BY <1>1 DEF UsageInv
<1>4. OpenInv'
  <2>1. \A w \in Branch : wpc'[w] = "off" /\ session'[w] = "none"
    BY <1>1
  <2>2. \A w \in Branch : Holds(session[w], wpc[w], faults, escaped)'
    BY <2>1 DEF Holds
  <2> QED BY <2>1, <2>2 DEF OpenInv
<1>5. BudgetInv'
  <2>1. DOMAIN steps' = {} /\ 1 \in Branch /\ 2 \in Branch
    BY <1>1 DEF Branch
  <2>2. Pending(wpc[1])' = 0 /\ Pending(wpc[2])' = 0
    BY <1>1, <2>1 DEF Pending
  <2> QED BY <2>1, <2>2, <1>1 DEF BudgetInv, Overrun
<1> QED BY <1>2, <1>3, <1>4, <1>5 DEF LimitInv

LEMMA SameLimits ==
    ASSUME LimitInv, UNCHANGED vars
    PROVE  LimitInv'
<1>1. UNCHANGED <<task, pc, stage, next, result, steps, faults, cancel, wpc, used, session, fail, escaped>>
  BY DEF vars, main, log, threads
<1>2. /\ Stage' = Stage /\ Branches' = Branches /\ Budget' = Budget /\ (Composed' <=> Composed)
  BY <1>1 DEF Stage, Branches, Budget, Composed, Cardinality
<1>3. LimitTypes'
  BY <1>1 DEF LimitInv, LimitTypes
<1>4. UsageInv' /\ OpenInv'
  BY <1>1, <1>2 DEF LimitInv, UsageInv, OpenInv, Within, Holds, Leaks
<1>5. BudgetInv'
  <2>1. \A i : Recorded(steps, i)' = Recorded(steps, i)
    BY <1>1 DEF Recorded, Cardinality
  <2>2. /\ Pending(wpc[1])' = Pending(wpc[1]) /\ Pending(wpc[2])' = Pending(wpc[2])
        /\ (Overrun(steps)' <=> Overrun(steps)) /\ Recorded(steps, Len(steps))' = Recorded(steps, Len(steps))
        /\ \A w : Stops(wpc[w], fail[w])' <=> Stops(wpc[w], fail[w])
    BY <1>1, <2>1 DEF Pending, Overrun, Stops
  <2> QED BY <2>1, <2>2, <1>1, <1>2 DEF LimitInv, BudgetInv
<1> QED BY <1>3, <1>4, <1>5 DEF LimitInv

LEMMA InitLimits == Init => LimitInv
<1> SUFFICES ASSUME Init PROVE LimitInv
  OBVIOUS
<1>1. /\ pc = "idle" /\ next = 1 /\ result = None /\ steps = <<>> /\ faults = [refused |-> 0, os |-> 0]
      /\ cancel = FALSE /\ wpc = [w \in Branch |-> "off"] /\ used = [w \in Branch |-> 0]
      /\ session = [w \in Branch |-> "none"]
  BY DEF Init
<1>2. LimitTypes
  <2>1. used \in [Branch -> Nat] /\ session \in [Branch -> {"none", "open", "closed"}]
    BY <1>1
  <2>2. result \in Results /\ pc \in Position /\ next \in Branch
    BY <1>1 DEF Results, Position, Branch
  <2> QED BY <2>1, <2>2, <1>1 DEF LimitTypes
<1>3. UsageInv
  BY <1>1 DEF UsageInv
<1>4. OpenInv
  <2>1. \A w \in Branch : wpc[w] = "off" /\ session[w] = "none"
    BY <1>1
  <2> QED BY <2>1 DEF OpenInv, Holds
<1>5. BudgetInv
  <2>1. DOMAIN steps = {} /\ 1 \in Branch /\ 2 \in Branch
    BY <1>1 DEF Branch
  <2>2. Pending(wpc[1]) = 0 /\ Pending(wpc[2]) = 0
    BY <1>1, <2>1 DEF Pending
  <2> QED BY <2>1, <2>2 DEF BudgetInv, Overrun
<1> QED BY <1>2, <1>3, <1>4, <1>5 DEF LimitInv

ManagerInv == IInv /\ LimitInv

LEMMA NextManagerInv == ManagerInv /\ [Next]_vars => ManagerInv'
<1> SUFFICES ASSUME ManagerInv, [Next]_vars PROVE LimitInv'
  BY NextIInv DEF ManagerInv
<1>1. IInv /\ IInv' /\ LimitInv
  BY NextIInv DEF ManagerInv
<1>2. CASE UNCHANGED vars
  BY <1>1, <1>2, SameLimits
<1>3. CASE \E f \in Fault : Begin(f)
  BY <1>1, <1>3, BeginLimits, MainKeepsLimits
<1>4. CASE MainStep
  BY <1>1, <1>4, MainKeepsLimits, PolicyLimits, RecordLimits, StageLimits, BeginGroupLimits,
     MarkLimits, EndLimits, AccountLimits, HandOffLimits, JoinLimits, AgentEndLimits DEF MainStep
<1>5. ASSUME NEW w \in Branch, AgentStep(w)
      PROVE  LimitInv'
  <2>1. AgentEffect(w) /\ LimitEffect(w)
    BY <1>1, <1>5, AgentSteps, AgentLimits
  <2> QED BY <2>1, <1>1, AgentKeepsOpen, AgentKeepsBudget DEF LimitInv
<1>6. CASE Again \/ Crash
  BY <1>1, <1>6, ResetLimits
<1>7. CASE Rest
  BY <1>1, <1>7, SameLimits DEF Rest
<1> QED BY <1>2, <1>3, <1>4, <1>5, <1>6, <1>7 DEF Next

LEMMA LimitsFollow ==
    ASSUME ManagerInv
    PROVE  TypeOK /\ SessionsReleased /\ StageBudget /\ CompositionBudget
<1>1. IInv /\ LimitInv /\ DiskInv /\ Types /\ LimitTypes
  BY DEF ManagerInv, IInv, DiskInv, LimitInv
<1>2. TypeOK
  <2>1. \A i \in DOMAIN steps : steps[i] \in {"marker", "work", "cancelled"}
    BY <1>1 DEF Types, Text
  <2>2. runs \in 0..MaxRuns /\ runSeq \in 0..MaxRuns
    BY <1>1, ManagerConstants DEF Types
  <2>3. result \in {None, Raised} \union [verdict : Verdict, stored : BOOLEAN]
    BY <1>1 DEF LimitTypes, Results
  <2> QED BY <1>1, <2>1, <2>2, <2>3 DEF TypeOK, Types, LimitTypes
<1>3. SessionsReleased
  BY <1>1 DEF SessionsReleased, LimitInv, OpenInv, Holds, Looping, Asking, Leaks, LimitTypes
<1>4. StageBudget
  BY <1>1 DEF StageBudget, LimitInv, UsageInv, Within
<1>5. CompositionBudget
  <2>1. ASSUME Composed, NEW i \in DOMAIN steps, steps[i] = "work"
        PROVE  Recorded(steps, i) <= Budget
    BY <1>1, <2>1 DEF LimitInv, BudgetInv
  <2> QED BY <2>1 DEF CompositionBudget, Recorded, Budget
<1> QED BY <1>2, <1>3, <1>4, <1>5

-----------------------------------------------------------------------------
(***************************************************************************)
(* The session with an agent (Execution).                                  *)
(***************************************************************************)
Places == {"new", "unborn", "idle", "read", "timedout", "finished", "failed", "closing", "asked",
           "terminated", "killed", "closed", "raised"}
Reply == [type : {"step", "result", "error", "noise", "eof"}, of : Nat \union {None}]
Order == [type : {"start", "send", "close"}, of : Nat \union {None}]

ExchangeTypes ==
  /\ backend \in Backends /\ late \in BOOLEAN /\ at \in Places
  /\ child \in {"none", "starting", "reading", "running", "exiting", "gone"}
  /\ termination \in {None, "completed", "cooperative", "forced"} /\ signal \in {"none", "term", "kill"}
  /\ sent \in Seq(Nat) /\ resumed \in Seq(Nat)
  /\ returned \in Seq(Reply) /\ queue \in Seq(Reply) /\ stdin \in Seq(Order)

\* An agent in the caller's thread has neither a process nor a queue.
ThreadInv ==
  /\ child = "none" <=> backend = "inproc"
  /\ backend = "inproc" =>
       at \in {"idle", "finished", "failed", "closed"} /\ signal = "none" /\ queue = <<>> /\ Len(resumed) = Len(sent)
  /\ at = "new" => child \in {"starting", "gone"}

Signalled == {"terminated", "killed", "raised"}
SignalInv ==
  /\ at \in Signalled => signal # "none"
  /\ at \notin Signalled \union {"closed"} => signal = "none"
  /\ at = "closed" /\ backend = "subprocess" => child = "gone" /\ (termination = "forced" <=> signal # "none")

\* The agent follows its caller, who sends no value before the item of the last one is back.
Sending == {"new", "idle", "read", "finished", "failed", "timedout"}
ValueInv ==
  /\ Len(resumed) <= Len(sent)
  /\ \A i \in 1..Len(resumed) : resumed[i] = sent[i]
  /\ at \in Sending => \A i \in 1..Len(sent) : sent[i] = i
  /\ at \in {"new", "idle"} => Len(resumed) = Len(sent) /\ Len(returned) = Len(sent)
  /\ at = "unborn" => Len(resumed) = Len(sent)
  /\ at = "read" => Len(returned) + 1 = Len(sent) /\ Len(sent) <= Len(resumed) + 1
  /\ \A i \in 1..Len(returned) : returned[i].of = i /\ i <= Len(resumed) /\ resumed[i] = i

\* The queue holds at most one answer, and only to the value that was sent last.
Answer(line) == line.type \in {"step", "result"}
OnlyAnswer(lines, n) ==
  \A k \in 1..Len(lines) : Answer(lines[k]) =>
      lines[k].of = n /\ \A j \in 1..Len(lines) : Answer(lines[j]) => j = k
NoAnswer(lines) == \A k \in 1..Len(lines) : ~Answer(lines[k])
AnswerInv ==
  /\ at \in {"new", "idle"} => NoAnswer(queue)
  /\ at = "read" => OnlyAnswer(queue, Len(sent)) /\ (NoAnswer(queue) \/ Len(resumed) = Len(sent))

\* What a child that can still read has before it: its start, the values it has not taken, the close.
Asks == {"asked", "terminated", "killed", "raised"}
Waits(lines, start, taken, values, close) ==
  /\ Len(lines) = (start + (Len(values) - taken)) + close
  /\ \A k \in 1..Len(lines) :
       lines[k] = IF k <= start THEN X!Line("start", None)
                  ELSE IF k <= start + (Len(values) - taken) THEN X!Line("send", values[(taken + k) - start])
                  ELSE X!Line("close", None)
Live == {"starting", "reading", "running"}
Ahead(c, a) == IF c = "starting" /\ a \notin {"new", "unborn"} THEN 1 ELSE 0
Behind(a) == IF a \in Asks THEN 1 ELSE 0
Taken(c, n) == IF c = "running" THEN n + 1 ELSE n
Unread(c, a, lines, done, values, v) ==
  c \in Live =>
    /\ Taken(c, Len(done)) <= Len(values)
    /\ c = "running" => v = values[Taken(c, Len(done))]
    /\ Waits(lines, Ahead(c, a), Taken(c, Len(done)), values, Behind(a))
UnreadInv == Unread(child, at, stdin, resumed, sent, held)

SessionInv == ExchangeTypes /\ ThreadInv /\ SignalInv /\ ValueInv /\ AnswerInv /\ UnreadInv

-----------------------------------------------------------------------------
\* What a line put behind the others, and one taken from their front, leave of a sequence.
LEMMA PutBehind ==
    ASSUME NEW S, NEW s \in Seq(S), NEW e \in S, NEW n \in Nat, n = Len(s)
    PROVE  /\ Append(s, e) \in Seq(S) /\ Len(Append(s, e)) = n + 1
           /\ Append(s, e)[n + 1] = e /\ \A i \in 1..n : Append(s, e)[i] = s[i]
  OBVIOUS

LEMMA TakeFirst ==
    ASSUME NEW S, NEW s \in Seq(S), s # <<>>, NEW n \in Nat, n = Len(s)
    PROVE  /\ Tail(s) \in Seq(S) /\ Len(Tail(s)) = n - 1 /\ n >= 1 /\ Head(s) = s[1] /\ Head(s) \in S
           /\ \A i \in 1..(n - 1) : Tail(s)[i] = s[i + 1]
  OBVIOUS

\* A value sent to a child that has not taken the ones before.
LEMMA SendWaits ==
    ASSUME NEW lines \in Seq(Order), NEW values \in Seq(Nat), NEW start \in Nat, NEW taken \in Nat, NEW v \in Nat,
           taken <= Len(values), Waits(lines, start, taken, values, 0)
    PROVE  Waits(Append(lines, X!Line("send", v)), start, taken, Append(values, v), 0)
<1>1. PICK n \in Nat, m \in Nat : n = Len(values) /\ m = Len(lines)
  OBVIOUS
<1> DEFINE line == X!Line("send", v)
           more == Append(lines, line)
           most == Append(values, v)
<1>2. line \in Order
  BY DEF X!Line, Order
<1>3. Len(more) = m + 1 /\ more[m + 1] = line /\ \A k \in 1..m : more[k] = lines[k]
  BY <1>1, <1>2, PutBehind
<1>4. Len(most) = n + 1 /\ most[n + 1] = v /\ \A k \in 1..n : most[k] = values[k]
  BY <1>1, PutBehind
<1>5. m = start + (n - taken) /\ taken <= n
  BY <1>1 DEF Waits
<1>6. \A k \in 1..m : lines[k] = IF k <= start THEN X!Line("start", None)
                                 ELSE X!Line("send", values[(taken + k) - start])
  BY <1>1, <1>5 DEF Waits
<1> HIDE DEF more, most
<1>7. ASSUME NEW k \in 1..(m + 1)
      PROVE  more[k] = IF k <= start THEN X!Line("start", None)
                       ELSE X!Line("send", most[(taken + k) - start])
  <2>1. CASE k = m + 1
    <3>1. (taken + k) - start = n + 1 /\ ~(k <= start)
      BY <2>1, <1>5
    <3> QED BY <3>1, <2>1, <1>3, <1>4
  <2>2. CASE k \in 1..m /\ k <= start
    BY <2>2, <1>3, <1>6
  <2>3. CASE k \in 1..m /\ ~(k <= start)
    <3>1. (taken + k) - start \in 1..n
      BY <2>3, <1>5
    <3> QED BY <3>1, <2>3, <1>3, <1>4, <1>6
  <2> QED BY <2>1, <2>2, <2>3
<1>8. start + ((n + 1) - taken) = m + 1 /\ (start + ((n + 1) - taken)) + 0 = m + 1
  BY <1>5
<1>9. Waits(more, start, taken, most, 0)
  BY <1>3, <1>4, <1>7, <1>8 DEF Waits
<1> QED BY <1>9 DEF more, most

\* close asks for an end behind everything that was sent.
LEMMA CloseWaits ==
    ASSUME NEW lines \in Seq(Order), NEW values \in Seq(Nat), NEW start \in Nat, NEW taken \in Nat,
           taken <= Len(values), Waits(lines, start, taken, values, 0)
    PROVE  Waits(Append(lines, X!Line("close", None)), start, taken, values, 1)
<1>1. PICK n \in Nat, m \in Nat : n = Len(values) /\ m = Len(lines)
  OBVIOUS
<1> DEFINE line == X!Line("close", None)
           more == Append(lines, line)
<1>2. line \in Order
  BY DEF X!Line, Order
<1>3. Len(more) = m + 1 /\ more[m + 1] = line /\ \A k \in 1..m : more[k] = lines[k]
  BY <1>1, <1>2, PutBehind
<1>5. m = start + (n - taken) /\ taken <= n
  BY <1>1 DEF Waits
<1>6. \A k \in 1..m : lines[k] = IF k <= start THEN X!Line("start", None)
                                 ELSE X!Line("send", values[(taken + k) - start])
  BY <1>1, <1>5 DEF Waits
<1> HIDE DEF more
<1>7. ASSUME NEW k \in 1..(m + 1)
      PROVE  more[k] = IF k <= start THEN X!Line("start", None)
                       ELSE IF k <= start + (n - taken) THEN X!Line("send", values[(taken + k) - start])
                       ELSE X!Line("close", None)
  <2>1. CASE k = m + 1
    BY <2>1, <1>3, <1>5
  <2>2. CASE k \in 1..m
    BY <2>2, <1>3, <1>5, <1>6
  <2> QED BY <2>1, <2>2
<1>8. (start + (n - taken)) + 1 = m + 1
  BY <1>5
<1>9. Waits(more, start, taken, values, 1)
  BY <1>1, <1>3, <1>7, <1>8 DEF Waits
<1> QED BY <1>9 DEF more

\* __init__ writes the start line, before any value.
LEMMA OpenWaits ==
    ASSUME NEW lines \in Seq(Order), NEW values \in Seq(Nat), NEW taken \in Nat,
           taken = Len(values), Waits(lines, 0, taken, values, 0)
    PROVE  Waits(Append(lines, X!Line("start", None)), 1, taken, values, 0)
<1> DEFINE line == X!Line("start", None)
           more == Append(lines, line)
<1>1. Len(lines) = 0
  BY DEF Waits
<1>2. line \in Order
  BY DEF X!Line, Order
<1>3. Len(more) = 1 /\ more[1] = line
  BY <1>1, <1>2, PutBehind
<1> HIDE DEF more
<1>4. (1 + (taken - taken)) + 0 = 1
  OBVIOUS
<1>5. Waits(more, 1, taken, values, 0)
  BY <1>3, <1>4 DEF Waits
<1> QED BY <1>5 DEF more

\* The child takes the start line.
LEMMA StartTaken ==
    ASSUME NEW lines \in Seq(Order), NEW values \in Seq(Nat), NEW taken \in Nat, NEW close \in Nat,
           taken <= Len(values), Waits(lines, 1, taken, values, close)
    PROVE  Waits(Tail(lines), 0, taken, values, close)
<1>1. PICK n \in Nat, m \in Nat : n = Len(values) /\ m = Len(lines)
  OBVIOUS
<1> DEFINE rest == Tail(lines)
<1>2. m = (1 + (n - taken)) + close /\ taken <= n
  BY <1>1 DEF Waits
<1>3. lines # <<>>
  <2>1. m # 0
    BY <1>2
  <2> QED BY <2>1, <1>1
<1>4. Len(rest) = m - 1 /\ \A k \in 1..(m - 1) : rest[k] = lines[k + 1]
  BY <1>1, <1>3, TakeFirst
<1>5. \A k \in 1..m : lines[k] = IF k <= 1 THEN X!Line("start", None)
                       ELSE IF k <= 1 + (n - taken) THEN X!Line("send", values[(taken + k) - 1])
                       ELSE X!Line("close", None)
  BY <1>1 DEF Waits
<1> HIDE DEF rest
<1>6. ASSUME NEW k \in 1..(m - 1)
      PROVE  rest[k] = IF k <= 0 THEN X!Line("start", None)
                       ELSE IF k <= 0 + (n - taken) THEN X!Line("send", values[(taken + k) - 0])
                       ELSE X!Line("close", None)
  <2>1. k + 1 \in 1..m /\ ~(k + 1 <= 1) /\ ~(k <= 0) /\ (taken + (k + 1)) - 1 = (taken + k) - 0
        /\ (k + 1 <= 1 + (n - taken) <=> k <= 0 + (n - taken))
    BY <1>2
  <2>2. rest[k] = lines[k + 1]
    BY <1>4
  <2> QED BY <2>1, <2>2, <1>5
<1>7. m - 1 = (0 + (n - taken)) + close
  BY <1>2
<1>8. Waits(rest, 0, taken, values, close)
  BY <1>1, <1>4, <1>6, <1>7 DEF Waits
<1> QED BY <1>8 DEF rest

\* The child takes the next value, or finds that it is to close.
LEMMA ValueTaken ==
    ASSUME NEW lines \in Seq(Order), NEW values \in Seq(Nat), NEW taken \in Nat, NEW close \in Nat,
           taken <= Len(values), Waits(lines, 0, taken, values, close), lines # <<>>,
           Head(lines).type # "close"
    PROVE  /\ taken + 1 <= Len(values) /\ Head(lines).of = values[taken + 1]
           /\ Waits(Tail(lines), 0, taken + 1, values, close)
<1>1. PICK n \in Nat, m \in Nat : n = Len(values) /\ m = Len(lines)
  OBVIOUS
<1> DEFINE rest == Tail(lines)
<1>2. m = (0 + (n - taken)) + close /\ taken <= n /\ m >= 1
  <2>1. m >= 1
    BY <1>1, TakeFirst
  <2> QED BY <2>1, <1>1 DEF Waits
<1>4. Len(rest) = m - 1 /\ Head(lines) = lines[1] /\ \A k \in 1..(m - 1) : rest[k] = lines[k + 1]
  BY <1>1, TakeFirst
<1>5. \A k \in 1..m : lines[k] = IF k <= 0 THEN X!Line("start", None)
                       ELSE IF k <= 0 + (n - taken) THEN X!Line("send", values[(taken + k) - 0])
                       ELSE X!Line("close", None)
  BY <1>1 DEF Waits
<1> HIDE DEF rest
<1>6. taken + 1 <= n /\ Head(lines).of = values[taken + 1]
  <2>1. 1 \in 1..m /\ ~(1 <= 0) /\ (taken + 1) - 0 = taken + 1
    BY <1>2
  <2>2. lines[1] = IF 1 <= 0 + (n - taken) THEN X!Line("send", values[taken + 1]) ELSE X!Line("close", None)
    BY <2>1, <1>5
  <2>3. 1 <= 0 + (n - taken)
    BY <2>2, <1>4 DEF X!Line
  <2>4. lines[1] = X!Line("send", values[taken + 1])
    BY <2>2, <2>3
  <2> QED BY <2>3, <2>4, <1>2, <1>4 DEF X!Line
<1>7. ASSUME NEW k \in 1..(m - 1)
      PROVE  rest[k] = IF k <= 0 THEN X!Line("start", None)
                       ELSE IF k <= 0 + (n - (taken + 1)) THEN X!Line("send", values[((taken + 1) + k) - 0])
                       ELSE X!Line("close", None)
  <2>1. k + 1 \in 1..m /\ ~(k + 1 <= 0) /\ ~(k <= 0) /\ (taken + (k + 1)) - 0 = ((taken + 1) + k) - 0
        /\ (k + 1 <= 0 + (n - taken) <=> k <= 0 + (n - (taken + 1)))
    BY <1>2
  <2>2. rest[k] = lines[k + 1]
    BY <1>4
  <2> QED BY <2>1, <2>2, <1>5
<1>8. m - 1 = (0 + (n - (taken + 1))) + close
  BY <1>2
<1>9. Waits(rest, 0, taken + 1, values, close)
  BY <1>1, <1>4, <1>7, <1>8 DEF Waits
<1> QED BY <1>1, <1>6, <1>9 DEF rest

-----------------------------------------------------------------------------
LEMMA SessionStarts == X!Init => SessionInv
<1> SUFFICES ASSUME X!Init PROVE SessionInv
  OBVIOUS
<1>1. /\ backend \in Backends /\ backend \in {"inproc", "subprocess"}
      /\ at = (IF backend = "inproc" THEN "idle" ELSE "new")
      /\ child = (IF backend = "inproc" THEN "none" ELSE "starting")
      /\ late = FALSE /\ sent = <<>> /\ returned = <<>> /\ termination = None /\ signal = "none"
      /\ stdin = <<>> /\ queue = <<>> /\ resumed = <<>>
  <2>1. backend \in Backends
    BY DEF X!Init
  <2>2. backend \in {"inproc", "subprocess"}
    BY <2>1, SessionConstants DEF X!ExecutionConstants
  <2> QED BY <2>1, <2>2 DEF X!Init
<1>2. Len(sent) = 0 /\ Len(returned) = 0 /\ Len(queue) = 0 /\ Len(stdin) = 0 /\ Len(resumed) = 0
  BY <1>1
<1>3. ExchangeTypes
  <2>1. at \in Places /\ child \in {"none", "starting", "reading", "running", "exiting", "gone"}
    BY <1>1 DEF Places
  <2>2. sent \in Seq(Nat) /\ resumed \in Seq(Nat) /\ returned \in Seq(Reply) /\ queue \in Seq(Reply)
        /\ stdin \in Seq(Order)
    BY <1>1
  <2>3. late \in BOOLEAN /\ termination \in {None, "completed", "cooperative", "forced"}
        /\ signal \in {"none", "term", "kill"}
    BY <1>1
  <2> QED BY <1>1, <2>1, <2>2, <2>3 DEF ExchangeTypes
<1>4. ThreadInv /\ SignalInv
  BY <1>1, <1>2 DEF ThreadInv, SignalInv, Signalled
<1>5. ValueInv /\ AnswerInv
  BY <1>1, <1>2 DEF ValueInv, AnswerInv, NoAnswer, Sending
<1>6. UnreadInv
  <2>1. CASE backend = "inproc"
    BY <2>1, <1>1 DEF UnreadInv, Unread, Live
  <2>2. CASE backend # "inproc"
    <3>1. child = "starting" /\ at = "new" /\ Ahead(child, at) = 0 /\ Behind(at) = 0 /\ Taken(child, Len(resumed)) = 0
      BY <2>2, <1>1, <1>2 DEF Ahead, Behind, Taken, Asks
    <3>2. Waits(stdin, 0, 0, sent, 0)
      BY <1>2 DEF Waits
    <3> QED BY <3>1, <3>2, <1>2 DEF UnreadInv, Unread, Live
  <2> QED BY <2>1, <2>2
<1> QED BY <1>3, <1>4, <1>5, <1>6 DEF SessionInv

\* A line that is no answer, put into the queue or read from it, leaves the answers as they were.
LEMMA NoiseQueued ==
    ASSUME ExchangeTypes, AnswerInv, UNCHANGED <<sent, resumed, at>>,
           NEW line \in Reply, ~Answer(line), queue' = Append(queue, line)
    PROVE  AnswerInv' /\ queue' \in Seq(Reply)
<1>1. PICK n \in Nat : n = Len(queue)
  BY DEF ExchangeTypes
<1>2. queue \in Seq(Reply)
  BY DEF ExchangeTypes
<1>3. queue' \in Seq(Reply) /\ Len(queue') = n + 1 /\ queue'[n + 1] = line /\ \A i \in 1..n : queue'[i] = queue[i]
  BY <1>1, <1>2, PutBehind
<1>4. \A k \in 1..Len(queue') : Answer(queue'[k]) => k \in 1..Len(queue) /\ queue'[k] = queue[k]
  BY <1>1, <1>3
<1>5. NoAnswer(queue) => NoAnswer(queue')
  BY <1>4 DEF NoAnswer
<1>6. OnlyAnswer(queue, Len(sent)) => OnlyAnswer(queue', Len(sent))
  BY <1>4 DEF OnlyAnswer
<1>7. (at' \in {"new", "idle"} => NoAnswer(queue')) /\ (at' = "read" => OnlyAnswer(queue', Len(sent'))
       /\ (NoAnswer(queue') \/ Len(resumed') = Len(sent')))
  BY <1>5, <1>6 DEF AnswerInv
<1> QED BY <1>3, <1>7 DEF AnswerInv, NoAnswer, OnlyAnswer

\* A step that leaves the pipe to the child alone, or after which the child reads no more.
LEMMA SameUnread ==
    ASSUME UnreadInv,
           \/ child' \notin Live
           \/ /\ UNCHANGED <<child, stdin, resumed, sent, held>>
              /\ Ahead(child, at') = Ahead(child, at) /\ Behind(at') = Behind(at)
    PROVE  UnreadInv'
<1>1. Unread(child', at', stdin', resumed', sent', held')
  BY DEF UnreadInv, Unread
<1> QED BY <1>1 DEF UnreadInv, Unread, Waits, Ahead, Behind, Taken

\* A step of the caller, who has left the places in which a value may be sent or an item come back.
Closes == {"closing", "asked", "terminated", "killed", "closed", "raised"}
LEMMA CloserValues ==
    ASSUME ExchangeTypes, ValueInv, UNCHANGED <<returned, resumed>>, at' \in Closes,
           UNCHANGED sent \/ sent' = Append(sent, 0)
    PROVE  ValueInv' /\ AnswerInv' /\ sent' \in Seq(Nat)
<1>1. PICK n \in Nat, r \in Nat : n = Len(sent) /\ r = Len(resumed)
  BY DEF ExchangeTypes
<1>2. sent' \in Seq(Nat) /\ n <= Len(sent') /\ \A i \in 1..n : sent'[i] = sent[i]
  <2>1. sent \in Seq(Nat)
    BY DEF ExchangeTypes
  <2>2. CASE UNCHANGED sent
    BY <2>1, <2>2, <1>1
  <2>3. CASE sent' = Append(sent, 0)
    BY <2>1, <2>3, <1>1, PutBehind
  <2> QED BY <2>2, <2>3
<1>3. r <= n
  BY <1>1 DEF ValueInv
<1>4. Len(sent') \in Nat
  BY <1>2
<1>5. r <= Len(sent') /\ \A i \in 1..r : resumed[i] = sent'[i]
  <2>1. r <= Len(sent')
    BY <1>2, <1>3, <1>4
  <2>2. \A i \in 1..r : i \in 1..n
    BY <1>3
  <2> QED BY <2>1, <2>2, <1>1, <1>2 DEF ValueInv
<1>6. at' \notin Sending /\ at' \notin {"new", "unborn", "idle", "read"}
  BY DEF Closes, Sending
<1>7. ValueInv'
  BY <1>1, <1>5, <1>6 DEF ValueInv
<1>8. AnswerInv'
  BY <1>6 DEF AnswerInv
<1> QED BY <1>2, <1>7, <1>8

\* Open: the start line is behind nothing, and a child that does not get it has nothing to read.
LEMMA OpenKeeps == ASSUME SessionInv, NEW encodable \in BOOLEAN, X!Open(encodable) PROVE SessionInv'
<1> USE DEF SessionInv
<1> DEFINE written == encodable /\ child # "gone"
<1>1. /\ backend = "subprocess" /\ at = "new" /\ at' = (IF written THEN "idle" ELSE "unborn")
      /\ stdin' = (IF written THEN Append(stdin, X!Line("start", None)) ELSE stdin)
      /\ UNCHANGED <<backend, late, sent, returned, termination, signal, queue, child, held, resumed, noise>>
  BY DEF X!Open, X!Goto, X!Alive, X!process
<1>2. child \in {"starting", "gone"}
  BY <1>1 DEF ThreadInv
<1>3. stdin' \in Seq(Order)
  <2>1. X!Line("start", None) \in Order /\ stdin \in Seq(Order)
    BY DEF X!Line, Order, ExchangeTypes
  <2> QED BY <2>1, <1>1
<1>4. ExchangeTypes'
  BY <1>1, <1>3 DEF ExchangeTypes, Places
<1>5. ThreadInv' /\ SignalInv'
  BY <1>1, <1>2 DEF ThreadInv, SignalInv, Signalled
<1>6. ValueInv' /\ AnswerInv'
  <2>1. UNCHANGED <<sent, resumed, returned>> /\ UNCHANGED queue
    BY <1>1
  <2>2. at' \in {"idle", "unborn"} /\ at = "new"
    BY <1>1
  <2> QED BY <2>1, <2>2 DEF ValueInv, AnswerInv, Sending
<1>7. UnreadInv'
  <2>1. CASE child = "gone"
    <3>1. child' \notin Live
      BY <2>1, <1>1 DEF Live
    <3> QED BY <3>1, SameUnread
  <2>2. CASE child # "gone"
    <3>1. child = "starting" /\ Ahead(child, at) = 0 /\ Behind(at) = 0 /\ Taken(child, Len(resumed)) = Len(resumed)
          /\ Ahead(child, at') = (IF encodable THEN 1 ELSE 0) /\ Behind(at') = 0
      BY <2>2, <1>1, <1>2 DEF Ahead, Behind, Taken, Asks
    <3>2. Waits(stdin, 0, Len(resumed), sent, 0)
      BY <3>1 DEF UnreadInv, Unread, Live
    <3>3. Len(resumed) = Len(sent) /\ Len(resumed) \in Nat /\ stdin \in Seq(Order) /\ sent \in Seq(Nat)
      BY <1>1 DEF ValueInv, ExchangeTypes
    <3>4. Waits(stdin', Ahead(child, at'), Len(resumed), sent, 0)
      <4>1. CASE encodable
        BY <4>1, <3>1, <3>2, <3>3, <2>2, <1>1, OpenWaits
      <4>2. CASE ~encodable
        BY <4>2, <3>1, <3>2, <1>1
      <4> QED BY <4>1, <4>2
    <3>5. Unread(child, at', stdin', resumed, sent, held)
      BY <3>1, <3>3, <3>4 DEF Unread
    <3> QED BY <3>5, <1>1 DEF UnreadInv, Unread, Waits, Ahead, Behind, Taken
  <2> QED BY <2>1, <2>2
<1> QED BY <1>4, <1>5, <1>6, <1>7

\* An agent in the caller's thread is resumed where its value is sent, and its item is the answer.
LEMMA InprocNextKeeps ==
    ASSUME SessionInv, NEW how \in {"step", "result", "raise"}, X!InprocNext(how)
    PROVE  SessionInv'
<1> USE DEF SessionInv
<1>1. PICK n \in Nat, r \in Nat : n = Len(sent) /\ r = Len(returned)
  BY DEF ExchangeTypes
<1> DEFINE line == X!Line(how, n + 1)
<1>2. /\ backend = "inproc" /\ at = "idle"
      /\ at' = (CASE how = "step" -> "idle" [] how = "result" -> "finished" [] OTHER -> "failed")
      /\ sent' = Append(sent, n + 1) /\ resumed' = Append(resumed, n + 1)
      /\ returned' = (IF how = "raise" THEN returned ELSE Append(returned, line))
      /\ UNCHANGED <<backend, late, termination, signal, stdin, queue, child, held, noise>>
  BY <1>1 DEF X!InprocNext, X!Goto
<1>3. at' \in {"idle", "finished", "failed"} /\ (at' = "idle" => how = "step")
  BY <1>2
<1>4. child = "none" /\ signal = "none" /\ queue = <<>> /\ Len(resumed) = n /\ r = n
  BY <1>1, <1>2 DEF ThreadInv, ValueInv
<1>5. sent' \in Seq(Nat) /\ Len(sent') = n + 1 /\ sent'[n + 1] = n + 1 /\ \A i \in 1..n : sent'[i] = sent[i]
  BY <1>1, <1>2, PutBehind DEF ExchangeTypes
<1>6. /\ resumed' \in Seq(Nat) /\ Len(resumed') = n + 1 /\ resumed'[n + 1] = n + 1
      /\ \A i \in 1..n : resumed'[i] = resumed[i]
  BY <1>1, <1>2, <1>4, PutBehind DEF ExchangeTypes
<1>7. how # "raise" => /\ returned' \in Seq(Reply) /\ Len(returned') = n + 1 /\ returned'[n + 1] = line
                       /\ \A i \in 1..n : returned'[i] = returned[i]
  <2>1. how # "raise" => line \in Reply
    BY DEF X!Line, Reply
  <2>2. returned \in Seq(Reply)
    BY DEF ExchangeTypes
  <2>3. how # "raise" => returned' = Append(returned, line)
    BY <1>2
  <2>4. n = Len(returned)
    BY <1>1, <1>4
  <2> HIDE DEF line
  <2> QED BY <2>1, <2>2, <2>3, <2>4, PutBehind
<1>8. line.of = n + 1
  BY DEF X!Line
<1> HIDE DEF line
<1>9. ExchangeTypes'
  <2>1. returned' \in Seq(Reply)
    BY <1>2, <1>7 DEF ExchangeTypes
  <2> QED BY <1>2, <1>3, <1>5, <1>6, <2>1 DEF ExchangeTypes, Places
<1>10. ThreadInv' /\ SignalInv'
  BY <1>2, <1>3, <1>4, <1>5, <1>6 DEF ThreadInv, SignalInv, Signalled
<1>11. ValueInv'
  <2>1. \A i \in 1..n : sent[i] = i /\ resumed[i] = i /\ returned[i].of = i
    <3>1. at \in Sending
      BY <1>2 DEF Sending
    <3> QED BY <3>1, <1>1, <1>4 DEF ValueInv
  <2>2. \A i \in 1..(n + 1) : sent'[i] = i /\ resumed'[i] = i
    BY <2>1, <1>5, <1>6
  <2>3. PICK q \in {n, n + 1} : Len(returned') = q /\ \A i \in 1..q : returned'[i].of = i
    <3>1. CASE how = "raise"
      BY <3>1, <2>1, <1>1, <1>2, <1>4
    <3>2. CASE how # "raise"
      <4>1. ASSUME NEW i \in 1..(n + 1)
            PROVE  returned'[i].of = i
        <5>1. CASE i = n + 1
          BY <5>1, <3>2, <1>7, <1>8
        <5>2. CASE i \in 1..n
          BY <5>2, <3>2, <2>1, <1>7
        <5> QED BY <5>1, <5>2
      <4> QED BY <3>2, <4>1, <1>7
    <3> QED BY <3>1, <3>2
  <2>4. at' = "idle" => Len(returned') = n + 1
    BY <1>3, <1>7
  <2>5. at' \notin {"new", "read"}
    BY <1>3
  <2>6. \A i \in 1..q : i \in 1..(n + 1) /\ i <= n + 1
    OBVIOUS
  <2>7. Len(resumed') <= Len(sent')
    BY <1>5, <1>6
  <2> QED BY <2>2, <2>3, <2>4, <2>5, <2>6, <2>7, <1>5, <1>6 DEF ValueInv, Sending
<1>12. AnswerInv'
  <2>1. Len(queue') = 0
    BY <1>2, <1>4
  <2> QED BY <2>1, <1>3 DEF AnswerInv, NoAnswer
<1>13. UnreadInv'
  BY <1>2, <1>4, SameUnread DEF Live
<1> QED BY <1>9, <1>10, <1>11, <1>12, <1>13

\* Cancelled goes to the agent too, in the caller's thread, and the session is over.
LEMMA InprocCancelKeeps == SessionInv /\ X!InprocCancel => SessionInv'
<1> SUFFICES ASSUME SessionInv, X!InprocCancel PROVE SessionInv'
  OBVIOUS
<1> USE DEF SessionInv
<1>1. /\ backend = "inproc" /\ at = "idle" /\ at' = "closed"
      /\ sent' = Append(sent, 0) /\ resumed' = Append(resumed, 0)
      /\ UNCHANGED <<backend, late, returned, termination, signal, stdin, queue, child, held, noise>>
  BY DEF X!InprocCancel, X!Goto, X!Cancelled
<1>2. PICK n \in Nat : n = Len(sent)
  BY DEF ExchangeTypes
<1>3. child = "none" /\ signal = "none" /\ queue = <<>> /\ Len(resumed) = n
  BY <1>1, <1>2 DEF ThreadInv
<1>4. sent' \in Seq(Nat) /\ Len(sent') = n + 1 /\ sent'[n + 1] = 0 /\ \A i \in 1..n : sent'[i] = sent[i]
  BY <1>1, <1>2, PutBehind DEF ExchangeTypes
<1>5. /\ resumed' \in Seq(Nat) /\ Len(resumed') = n + 1 /\ resumed'[n + 1] = 0
      /\ \A i \in 1..n : resumed'[i] = resumed[i]
  BY <1>1, <1>2, <1>3, PutBehind DEF ExchangeTypes
<1>6. ExchangeTypes'
  BY <1>1, <1>4, <1>5 DEF ExchangeTypes, Places
<1>7. ThreadInv' /\ SignalInv'
  BY <1>1, <1>3, <1>4, <1>5 DEF ThreadInv, SignalInv, Signalled
<1>8. ValueInv'
  <2>1. \A i \in 1..(n + 1) : i \in 1..n \/ i = n + 1
    OBVIOUS
  <2>2. \A i \in 1..(n + 1) : resumed'[i] = sent'[i]
    BY <2>1, <1>2, <1>3, <1>4, <1>5 DEF ValueInv
  <2>3. Len(returned) = n /\ \A i \in 1..n : returned[i].of = i /\ resumed[i] = i
    BY <1>1, <1>2, <1>3 DEF ValueInv
  <2>4. \A i \in 1..n : i <= n + 1
    OBVIOUS
  <2>5. Len(resumed') <= Len(sent')
    BY <1>4, <1>5
  <2>6. returned' = returned
    BY <1>1
  <2> QED BY <2>2, <2>3, <2>4, <2>5, <2>6, <1>1, <1>4, <1>5 DEF ValueInv, Sending
<1>9. AnswerInv'
  BY <1>1 DEF AnswerInv
<1>10. UnreadInv'
  BY <1>1, <1>3, SameUnread DEF Live
<1> QED BY <1>6, <1>7, <1>8, <1>9, <1>10

\* Steps in which the caller only goes on, without a line or an item.
LEMMA CallerMoves ==
    ASSUME SessionInv,
           X!InprocClose \/ X!Expire \/ X!Timeout \/ X!Release
    PROVE  SessionInv'
<1> USE DEF SessionInv
<1>1. UNCHANGED <<backend, sent, returned, termination, signal, stdin, queue, child, held, resumed, noise>>
  BY DEF X!InprocClose, X!Expire, X!Timeout, X!Release, X!process
<1>2. \/ /\ backend = "inproc" /\ at \in {"idle", "finished", "failed"} /\ at' = "closed" /\ late' = late
      \/ at' = at /\ late' = TRUE
      \/ at = "read" /\ at' = "timedout" /\ late' = late
      \/ backend = "subprocess" /\ at \in {"idle", "finished", "failed"} /\ at' = "closing" /\ late' = late
  BY DEF X!InprocClose, X!Expire, X!Timeout, X!Release, X!Goto
<1>3. ExchangeTypes'
  BY <1>1, <1>2 DEF ExchangeTypes, Places
<1>4. ThreadInv' /\ SignalInv'
  BY <1>1, <1>2 DEF ThreadInv, SignalInv, Signalled
<1>5. ValueInv' /\ AnswerInv'
  <2>1. at' = at \/ at' \in {"closed", "timedout", "closing"}
    BY <1>2
  <2>2. CASE at' = at
    BY <2>2, <1>1 DEF ValueInv, AnswerInv
  <2>3. CASE at' \in {"closed", "closing"}
    BY <2>3, <1>1, CloserValues DEF Closes
  <2>4. CASE at' = "timedout"
    <3>1. at' = "timedout" /\ at \in Sending
      BY <2>4, <1>2 DEF Sending
    <3> QED BY <3>1, <1>1 DEF ValueInv, AnswerInv
  <2> QED BY <2>1, <2>2, <2>3, <2>4
<1>6. UnreadInv'
  <2>1. CASE child = "none"
    BY <2>1, <1>1, SameUnread DEF Live
  <2>2. CASE child # "none"
    <3>1. Ahead(child, at') = Ahead(child, at) /\ Behind(at') = Behind(at)
      BY <2>2, <1>2 DEF Ahead, Behind, Asks, ThreadInv
    <3> QED BY <3>1, <1>1, SameUnread
  <2> QED BY <2>1, <2>2
<1> QED BY <1>3, <1>4, <1>5, <1>6

\* close: the child is asked, then terminated, then killed, and reaped where it is found gone.
LEMMA CloseKeeps ==
    ASSUME SessionInv, X!Close \/ X!CloseForcibly
    PROVE  SessionInv'
<1> USE DEF SessionInv
<1>1. UNCHANGED <<backend, late, sent, returned, queue, child, held, resumed, noise>>
  BY DEF X!Close, X!CloseForcibly, X!Reap, X!GraceOver, X!process
<1>2. \/ /\ at = "closing" /\ at' = (IF child # "gone" THEN "asked" ELSE "closed") /\ signal' = signal
         /\ termination' = (IF child # "gone" THEN termination ELSE "completed")
      \/ /\ child = "gone" /\ at \in {"asked", "terminated", "killed"} /\ at' = "closed" /\ signal' = signal
         /\ termination' = (IF at = "asked" THEN "cooperative" ELSE "forced")
      \/ /\ child # "gone" /\ termination' = termination
         /\ \/ at = "asked" /\ at' = "terminated" /\ signal' = "term"
            \/ at = "terminated" /\ at' = "killed" /\ signal' = "kill"
            \/ at = "killed" /\ at' = "raised" /\ signal' = "kill"
  BY DEF X!Close, X!CloseForcibly, X!Reap, X!GraceOver, X!Goto, X!Alive
<1>3. /\ at = "closing" => stdin' = (IF child # "gone" THEN Append(stdin, X!Line("close", None)) ELSE stdin)
      /\ at # "closing" => stdin' = stdin
  BY DEF X!Close, X!CloseForcibly, X!Reap, X!GraceOver, X!Goto, X!Alive
<1>4. stdin' \in Seq(Order)
  <2>1. X!Line("close", None) \in Order /\ stdin \in Seq(Order)
    BY DEF X!Line, Order, ExchangeTypes
  <2> QED BY <2>1, <1>3
<1>5. at' \in Closes /\ at' \in Places /\ at \in Closes \ {"closed", "raised"}
  BY <1>2 DEF Closes, Places
<1>6. ExchangeTypes'
  <2>1. termination' \in {None, "completed", "cooperative", "forced"}
    BY <1>2 DEF ExchangeTypes
  <2>2. signal' \in {"none", "term", "kill"}
    BY <1>2 DEF ExchangeTypes
  <2> QED BY <1>1, <1>4, <1>5, <2>1, <2>2 DEF ExchangeTypes
<1>7. SignalInv'
  <2>1. at = "closing" \/ at = "asked" => signal = "none"
    BY DEF SignalInv, Signalled
  <2>2. at \in {"terminated", "killed"} => signal # "none"
    BY DEF SignalInv, Signalled
  <2> QED BY <1>1, <1>2, <2>1, <2>2 DEF SignalInv, Signalled
<1>8. ThreadInv'
  <2>1. at \notin {"idle", "finished", "failed", "closed"} /\ at' # "new"
    BY <1>5 DEF Closes
  <2>2. backend # "inproc" /\ child # "none"
    BY <2>1 DEF ThreadInv
  <2> QED BY <1>1, <2>1, <2>2 DEF ThreadInv
<1>9. ValueInv' /\ AnswerInv'
  BY <1>1, <1>5, CloserValues
<1>10. UnreadInv'
  <2>1. CASE child = "gone"
    BY <2>1, <1>1, SameUnread DEF Live
  <2>2. CASE child # "gone" /\ at # "closing"
    <3>1. Ahead(child, at') = Ahead(child, at) /\ Behind(at') = Behind(at)
      BY <2>2, <1>2 DEF Ahead, Behind, Asks
    <3> QED BY <3>1, <2>2, <1>1, <1>3, SameUnread
  <2>3. CASE child # "gone" /\ at = "closing" /\ child \in Live
    <3> DEFINE first == Ahead(child, at)
               taken == Taken(child, Len(resumed))
    <3>1. at' = "asked" /\ Behind(at) = 0 /\ Behind(at') = 1 /\ Ahead(child, at') = first /\ first \in Nat
      BY <2>3, <1>2 DEF Ahead, Behind, Asks
    <3>2. taken \in Nat /\ stdin \in Seq(Order) /\ sent \in Seq(Nat)
      BY DEF Taken, ExchangeTypes
    <3>3. taken <= Len(sent) /\ Waits(stdin, first, taken, sent, 0) /\ (child = "running" => held = sent[taken])
      BY <2>3, <3>1 DEF UnreadInv, Unread
    <3>4. stdin' = Append(stdin, X!Line("close", None))
      BY <2>3, <1>3
    <3>5. Waits(stdin', first, taken, sent, 1)
      <4> HIDE DEF first, taken
      <4> QED BY <3>1, <3>2, <3>3, <3>4, CloseWaits
    <3>6. Unread(child, at', stdin', resumed, sent, held)
      BY <3>1, <3>3, <3>5 DEF Unread
    <3> QED BY <3>6, <1>1 DEF UnreadInv, Unread, Waits, Ahead, Behind, Taken
  <2>4. CASE child \notin Live
    BY <2>4, <1>1, SameUnread
  <2> QED BY <2>1, <2>2, <2>3, <2>4
<1> QED BY <1>6, <1>7, <1>8, <1>9, <1>10

\* A value for the child, which reads it after the ones before: a turn of next_step, or the cancellation.
LEMMA ValueUnread ==
    ASSUME ExchangeTypes, UnreadInv, NEW v \in Nat, at \in {"idle", "timedout"}, at' \in {"read", "closing"},
           sent' = Append(sent, v), stdin' = Append(stdin, X!Line("send", v)),
           UNCHANGED <<child, held, resumed>>, Len(resumed) <= Len(sent)
    PROVE  UnreadInv'
<1>1. CASE child \notin Live
  BY <1>1, SameUnread
<1>2. CASE child \in Live
  <2> DEFINE first == Ahead(child, at)
             taken == Taken(child, Len(resumed))
  <2>1. Behind(at) = 0 /\ Behind(at') = 0 /\ Ahead(child, at') = first /\ first \in Nat
    BY DEF Ahead, Behind, Asks
  <2>2. taken \in Nat /\ stdin \in Seq(Order) /\ sent \in Seq(Nat)
    BY DEF Taken, ExchangeTypes
  <2>3. taken <= Len(sent) /\ Waits(stdin, first, taken, sent, 0) /\ (child = "running" => held = sent[taken])
    BY <1>2, <2>1 DEF UnreadInv, Unread
  <2>4. Waits(stdin', first, taken, sent', 0)
    <3> HIDE DEF first, taken
    <3> QED BY <2>1, <2>2, <2>3, SendWaits
  <2>5. PICK n \in Nat : n = Len(sent)
    BY <2>2
  <2>6. Len(sent') = n + 1 /\ \A i \in 1..n : sent'[i] = sent[i]
    BY <2>2, <2>5, PutBehind
  <2>7. taken <= Len(sent') /\ (child = "running" => held = sent'[taken])
    <3>1. child = "running" => taken \in 1..n
      BY <2>2, <2>3, <2>5 DEF Taken, ExchangeTypes
    <3> HIDE DEF taken
    <3>2. taken <= n + 1
      BY <2>2, <2>3, <2>5
    <3> QED BY <3>1, <3>2, <2>3, <2>6
  <2>8. Unread(child, at', stdin', resumed, sent', held)
    BY <2>1, <2>4, <2>7 DEF Unread
  <2> QED BY <2>8 DEF UnreadInv, Unread, Waits, Ahead, Behind, Taken
<1> QED BY <1>1, <1>2

\* next_step sends one value when the last item is back, and then waits for the next one.
LEMMA SendKeeps ==
    ASSUME SessionInv, NEW encodable \in BOOLEAN, X!Send(encodable)
    PROVE  SessionInv'
<1> USE DEF SessionInv
<1>1. PICK n \in Nat : n = Len(sent)
  BY DEF ExchangeTypes
<1>2. /\ backend = "subprocess" /\ at = "idle"
      /\ UNCHANGED <<backend, late, returned, termination, signal, queue, child, held, resumed, noise>>
      /\ \/ at' = "failed" /\ UNCHANGED <<stdin, sent>>
         \/ /\ at' = "read" /\ sent' = Append(sent, n + 1)
            /\ stdin' = Append(stdin, X!Line("send", n + 1))
  BY <1>1 DEF X!Send, X!Goto, X!process
<1>3. child # "none" /\ signal = "none"
  BY <1>2 DEF ThreadInv, SignalInv, Signalled
<1>4. CASE at' = "failed" /\ UNCHANGED <<stdin, sent>>
  <2>1. ExchangeTypes'
    BY <1>2, <1>4 DEF ExchangeTypes, Places
  <2>2. ThreadInv' /\ SignalInv'
    BY <1>2, <1>3, <1>4 DEF ThreadInv, SignalInv, Signalled
  <2>3. at' = "failed" /\ at \in Sending
    BY <1>2, <1>4 DEF Sending
  <2>4. ValueInv' /\ AnswerInv'
    BY <2>3, <1>2, <1>4 DEF ValueInv, AnswerInv
  <2>5. Ahead(child, at') = Ahead(child, at) /\ Behind(at') = Behind(at)
    BY <1>2, <1>4 DEF Ahead, Behind, Asks
  <2>6. UnreadInv'
    BY <2>5, <1>2, <1>4, SameUnread
  <2> QED BY <2>1, <2>2, <2>4, <2>6
<1>5. CASE at' = "read" /\ sent' = Append(sent, n + 1) /\ stdin' = Append(stdin, X!Line("send", n + 1))
  <2>1. sent' \in Seq(Nat) /\ Len(sent') = n + 1 /\ sent'[n + 1] = n + 1 /\ \A i \in 1..n : sent'[i] = sent[i]
    BY <1>1, <1>5, PutBehind DEF ExchangeTypes
  <2>2. stdin' \in Seq(Order)
    <3>1. X!Line("send", n + 1) \in Order /\ stdin \in Seq(Order)
      BY DEF X!Line, Order, ExchangeTypes
    <3> QED BY <3>1, <1>5
  <2>3. ExchangeTypes'
    BY <1>2, <1>5, <2>1, <2>2 DEF ExchangeTypes, Places
  <2>4. ThreadInv' /\ SignalInv'
    BY <1>2, <1>3, <1>5 DEF ThreadInv, SignalInv, Signalled
  <2>5. Len(resumed) = n /\ Len(returned) = n /\ (\A i \in 1..n : sent[i] = i /\ resumed[i] = sent[i])
    BY <1>1, <1>2 DEF ValueInv, Sending
  <2>6. \A i \in 1..(n + 1) : sent'[i] = i
    BY <2>1, <2>5
  <2>7. ValueInv'
    <3>1. Len(resumed') = n /\ Len(returned') = n /\ returned' = returned /\ resumed' = resumed
      BY <2>5, <1>2
    <3>2. \A i \in 1..n : resumed'[i] = sent'[i]
      BY <3>1, <2>1, <2>5
    <3>3. n <= n + 1 /\ n + 1 <= n + 1
      OBVIOUS
    <3>4. \A i \in 1..n : returned[i].of = i /\ i <= n /\ resumed[i] = i
      BY <2>5 DEF ValueInv
    <3> QED BY <3>1, <3>2, <3>3, <3>4, <2>1, <2>6, <1>5 DEF ValueInv
  <2>8. AnswerInv'
    <3>1. NoAnswer(queue)
      BY <1>2 DEF AnswerInv
    <3>2. NoAnswer(queue') /\ OnlyAnswer(queue', Len(sent'))
      BY <3>1, <1>2 DEF NoAnswer, OnlyAnswer
    <3> QED BY <3>2, <1>5 DEF AnswerInv, NoAnswer, OnlyAnswer
  <2>9. UnreadInv'
    <3>1. Len(resumed) <= Len(sent) /\ n + 1 \in Nat /\ ExchangeTypes /\ UnreadInv
      BY DEF ValueInv
    <3>2. at \in {"idle", "timedout"} /\ at' \in {"read", "closing"} /\ UNCHANGED <<child, held, resumed>>
      BY <1>2, <1>5
    <3> QED BY <3>1, <3>2, <1>5, ValueUnread
  <2> QED BY <2>3, <2>4, <2>7, <2>8, <2>9
<1> QED BY <1>2, <1>4, <1>5

\* A run out of budget, or one whose child is silent, sends Cancelled behind the values.
LEMMA CancelKeeps == SessionInv /\ X!Cancel => SessionInv'
<1> SUFFICES ASSUME SessionInv, X!Cancel PROVE SessionInv'
  OBVIOUS
<1> USE DEF SessionInv
<1>1. /\ backend = "subprocess" /\ at \in {"idle", "timedout"} /\ at' = "closing"
      /\ UNCHANGED <<backend, late, returned, termination, signal, queue, child, held, resumed, noise>>
      /\ stdin' = (IF child # "gone" THEN Append(stdin, X!Line("send", 0)) ELSE stdin)
      /\ sent' = (IF child # "gone" THEN Append(sent, 0) ELSE sent)
  BY DEF X!Cancel, X!Alive, X!Cancelled, X!process
<1>2. child # "none" /\ signal = "none"
  BY <1>1 DEF ThreadInv, SignalInv, Signalled
<1>3. ValueInv' /\ AnswerInv' /\ sent' \in Seq(Nat)
  BY <1>1, CloserValues DEF Closes
<1>4. stdin' \in Seq(Order)
  <2>1. X!Line("send", 0) \in Order /\ stdin \in Seq(Order)
    BY DEF X!Line, Order, ExchangeTypes
  <2> QED BY <2>1, <1>1
<1>5. ExchangeTypes'
  BY <1>1, <1>3, <1>4 DEF ExchangeTypes, Places
<1>6. ThreadInv' /\ SignalInv'
  BY <1>1, <1>2 DEF ThreadInv, SignalInv, Signalled
<1>7. UnreadInv'
  <2>1. CASE child = "gone"
    BY <2>1, <1>1, SameUnread DEF Live
  <2>2. CASE child # "gone"
    <3>1. Len(resumed) <= Len(sent) /\ 0 \in Nat /\ ExchangeTypes /\ UnreadInv
      BY DEF ValueInv
    <3>2. sent' = Append(sent, 0) /\ stdin' = Append(stdin, X!Line("send", 0)) /\ at' \in {"read", "closing"}
          /\ UNCHANGED <<child, held, resumed>>
      BY <2>2, <1>1
    <3> QED BY <3>1, <3>2, <1>1, ValueUnread
  <2> QED BY <2>1, <2>2
<1> QED BY <1>3, <1>5, <1>6, <1>7

\* The next line of the queue: an answer is to the value sent last, whose place it takes.
LEMMA ReadKeeps == SessionInv /\ X!Read => SessionInv'
<1> SUFFICES ASSUME SessionInv, X!Read PROVE SessionInv'
  OBVIOUS
<1> USE DEF SessionInv
<1> DEFINE line == Head(queue)
<1>1. PICK n \in Nat, m \in Nat : n = Len(returned) /\ m = Len(queue)
  BY DEF ExchangeTypes
<1>2. /\ at = "read" /\ queue # <<>> /\ queue' = Tail(queue)
      /\ at' = (CASE line.type = "step" -> "idle" [] line.type = "result" -> "finished" [] OTHER -> "failed")
      /\ returned' = (IF Answer(line) THEN Append(returned, line) ELSE returned)
      /\ UNCHANGED <<backend, late, sent, termination, signal, stdin, child, held, resumed, noise>>
  BY DEF X!Read, X!process, Answer
<1>3. /\ queue' \in Seq(Reply) /\ Len(queue') = m - 1 /\ m >= 1 /\ line = queue[1] /\ line \in Reply
      /\ \A i \in 1..(m - 1) : queue'[i] = queue[i + 1]
  BY <1>1, <1>2, TakeFirst DEF ExchangeTypes
<1> HIDE DEF line
<1>4. child # "none" /\ signal = "none"
  BY <1>2 DEF ThreadInv, SignalInv, Signalled
<1>5. at' \in {"idle", "finished", "failed"} /\ (at' = "idle" => Answer(line)) /\ (~Answer(line) => at' = "failed")
  BY <1>2 DEF Answer
<1>6. Len(sent) = n + 1 /\ Len(sent) <= Len(resumed) + 1 /\ Len(resumed) <= Len(sent)
      /\ \A i \in 1..(n + 1) : sent[i] = i
  BY <1>1, <1>2 DEF ValueInv, Sending, ExchangeTypes
<1>7. Answer(line) => line.of = n + 1 /\ Len(resumed) = n + 1 /\ \A j \in 1..m : Answer(queue[j]) => j = 1
  <2>1. 1 \in 1..m
    BY <1>3
  <2> QED BY <2>1, <1>1, <1>2, <1>3, <1>6 DEF AnswerInv, NoAnswer, OnlyAnswer
<1>8. Answer(line) => /\ returned' \in Seq(Reply) /\ Len(returned') = n + 1 /\ returned'[n + 1] = line
                      /\ \A i \in 1..n : returned'[i] = returned[i]
  <2>1. returned \in Seq(Reply)
    BY DEF ExchangeTypes
  <2> QED BY <2>1, <1>1, <1>2, <1>3, PutBehind
<1>9. ExchangeTypes'
  <2>1. returned' \in Seq(Reply)
    BY <1>2, <1>8 DEF ExchangeTypes
  <2> QED BY <2>1, <1>2, <1>3, <1>5 DEF ExchangeTypes, Places
<1>10. ThreadInv' /\ SignalInv'
  BY <1>2, <1>4, <1>5 DEF ThreadInv, SignalInv, Signalled
<1>11. ValueInv'
  <2>1. resumed' = resumed /\ sent' = sent
    BY <1>2
  <2>2. CASE ~Answer(line)
    <3>1. at' = "failed" /\ returned' = returned
      BY <2>2, <1>2, <1>5
    <3> QED BY <3>1, <2>1, <1>2, <1>6 DEF ValueInv, Sending
  <2>3. CASE Answer(line)
    <3>1. ASSUME NEW i \in 1..(n + 1)
          PROVE  returned'[i].of = i /\ i <= n + 1 /\ resumed[i] = i
      <4>1. resumed[i] = i
        BY <2>3, <1>6, <1>7 DEF ValueInv
      <4>2. CASE i = n + 1
        BY <4>1, <4>2, <2>3, <1>7, <1>8
      <4>3. CASE i \in 1..n
        <5>1. returned[i].of = i
          BY <4>3, <1>1 DEF ValueInv
        <5> QED BY <5>1, <4>1, <4>3, <2>3, <1>8
      <4> QED BY <4>2, <4>3
    <3>2. at' \notin {"new", "read"}
      BY <1>5
    <3>3. \A i \in 1..(n + 1) : resumed[i] = sent[i]
      BY <3>1, <1>6
    <3> QED BY <3>1, <3>2, <3>3, <2>1, <2>3, <1>6, <1>7, <1>8 DEF ValueInv
  <2> QED BY <2>2, <2>3
<1>12. AnswerInv'
  <2>1. CASE at' = "idle"
    <3>1. \A i \in 1..(m - 1) : i + 1 \in 1..m /\ i + 1 # 1
      BY <1>3
    <3>2. \A i \in 1..(m - 1) : ~Answer(queue[i + 1])
      BY <2>1, <3>1, <1>5, <1>7
    <3>3. \A i \in 1..Len(queue') : ~Answer(queue'[i])
      BY <3>2, <1>3
    <3> QED BY <3>3, <2>1 DEF AnswerInv, NoAnswer
  <2>2. CASE at' # "idle"
    BY <2>2, <1>5 DEF AnswerInv
  <2> QED BY <2>1, <2>2
<1>13. UnreadInv'
  <2>1. Ahead(child, at') = Ahead(child, at) /\ Behind(at') = Behind(at)
    BY <1>2, <1>5 DEF Ahead, Behind, Asks
  <2> QED BY <2>1, <1>2, SameUnread
<1> QED BY <1>9, <1>10, <1>11, <1>12, <1>13

\* The child only dies, or ends, or prints: the values stay as they were.
LEMMA ChildLeavesValues ==
    ASSUME SessionInv, UNCHANGED <<backend, at, late, sent, returned, termination, signal, resumed>>
    PROVE  ValueInv'
  BY DEF SessionInv, ValueInv

LEMMA ChildLeavesSignals ==
    ASSUME SessionInv, UNCHANGED <<backend, at, late, sent, returned, termination, signal>>,
           child # "gone", child' \notin {"none", "starting"}, child # "none", at = "new" => child' = "gone"
    PROVE  ThreadInv' /\ SignalInv'
<1>1. backend = "subprocess" /\ at # "closed"
  <2>1. backend \in {"inproc", "subprocess"}
    BY SessionConstants DEF SessionInv, ExchangeTypes, X!ExecutionConstants
  <2> QED BY <2>1 DEF SessionInv, ThreadInv, SignalInv
<1> QED BY <1>1 DEF SessionInv, ThreadInv, SignalInv, Signalled

\* The process ends, by itself or by a signal; its last lines are no answers.
EndLines == {X!Line("noise", None), X!Eof, X!Line("error", None)}
LEMMA EndLineFacts == \A line \in EndLines : line \in Reply /\ ~Answer(line)
  BY DEF EndLines, X!Line, X!Eof, Reply, Answer

LEMMA ChildEnds ==
    ASSUME SessionInv, child # "gone", child # "none", child' \in {"exiting", "gone"}, at = "new" => child' = "gone",
           UNCHANGED <<backend, at, late, sent, returned, termination, signal, resumed>>,
           stdin' \in Seq(Order),
           \/ \E line \in EndLines : queue' = Append(queue, line)
           \/ \E one, two \in EndLines : queue' = Append(Append(queue, one), two)
           \/ UNCHANGED queue
    PROVE  SessionInv'
<1>1. ExchangeTypes /\ AnswerInv /\ queue \in Seq(Reply) /\ resumed \in Seq(Nat)
  BY DEF SessionInv, ExchangeTypes
<1>2. queue' \in Seq(Reply) /\ \A k \in 1..Len(queue') : Answer(queue'[k]) => k \in 1..Len(queue) /\ queue'[k] = queue[k]
  <2>1. ASSUME NEW q \in Seq(Reply), NEW line \in EndLines
        PROVE  /\ Append(q, line) \in Seq(Reply)
               /\ \A k \in 1..Len(Append(q, line)) : Answer(Append(q, line)[k]) => k \in 1..Len(q) /\ Append(q, line)[k] = q[k]
    <3>1. PICK n \in Nat : n = Len(q)
      OBVIOUS
    <3>2. line \in Reply /\ ~Answer(line)
      BY EndLineFacts
    <3> DEFINE more == Append(q, line)
    <3>3. more \in Seq(Reply) /\ Len(more) = n + 1 /\ more[n + 1] = line /\ \A i \in 1..n : more[i] = q[i]
      BY <3>1, <3>2, PutBehind
    <3> HIDE DEF more
    <3>4. more \in Seq(Reply) /\ \A k \in 1..Len(more) : Answer(more[k]) => k \in 1..Len(q) /\ more[k] = q[k]
      BY <3>1, <3>2, <3>3
    <3> QED BY <3>4 DEF more
  <2>2. CASE \E line \in EndLines : queue' = Append(queue, line)
    BY <2>1, <2>2, <1>1
  <2>3. CASE \E one, two \in EndLines : queue' = Append(Append(queue, one), two)
    <3>1. PICK one \in EndLines, two \in EndLines : queue' = Append(Append(queue, one), two)
      BY <2>3
    <3> DEFINE half == Append(queue, one)
    <3>2. half \in Seq(Reply) /\ \A k \in 1..Len(half) : Answer(half[k]) => k \in 1..Len(queue) /\ half[k] = queue[k]
      BY <2>1, <1>1
    <3>3. queue' = Append(half, two)
      BY <3>1
    <3> HIDE DEF half
    <3>4. queue' \in Seq(Reply) /\ \A k \in 1..Len(queue') : Answer(queue'[k]) => k \in 1..Len(half) /\ queue'[k] = half[k]
      BY <2>1, <3>2, <3>3
    <3> QED BY <3>2, <3>4
  <2>4. CASE UNCHANGED queue
    BY <2>4, <1>1
  <2> QED BY <2>2, <2>3, <2>4
<1>3. AnswerInv'
  <2>1. NoAnswer(queue) => NoAnswer(queue')
    BY <1>2 DEF NoAnswer
  <2>2. OnlyAnswer(queue, Len(sent)) => OnlyAnswer(queue', Len(sent))
    BY <1>2 DEF OnlyAnswer
  <2>3. (at' \in {"new", "idle"} => NoAnswer(queue')) /\ (at' = "read" => OnlyAnswer(queue', Len(sent'))
         /\ (NoAnswer(queue') \/ Len(resumed') = Len(sent')))
    BY <2>1, <2>2, <1>1 DEF AnswerInv
  <2> QED BY <2>3 DEF AnswerInv, NoAnswer, OnlyAnswer
<1>4. ExchangeTypes'
  BY <1>1, <1>2 DEF ExchangeTypes
<1>5. ThreadInv' /\ SignalInv'
  BY ChildLeavesSignals
<1>6. ValueInv'
  BY ChildLeavesValues
<1>7. UnreadInv'
  BY SameUnread DEF SessionInv, Live
<1> QED BY <1>3, <1>4, <1>5, <1>6, <1>7 DEF SessionInv

\* A child that boots has taken the start line, which is there once the session is open.
LEMMA BootKeeps ==
    ASSUME SessionInv, NEW ok \in BOOLEAN, X!Boot(ok)
    PROVE  SessionInv'
<1>1. /\ child = "starting" /\ stdin # <<>> /\ stdin' = Tail(stdin)
      /\ child' = (IF ok THEN "reading" ELSE "exiting")
      /\ queue' = (IF ok THEN queue ELSE Append(queue, X!Line("error", None)))
      /\ UNCHANGED <<backend, at, late, sent, returned, termination, signal, held, resumed, noise>>
  BY DEF X!Boot, X!session
<1>2. stdin \in Seq(Order) /\ sent \in Seq(Nat) /\ Len(resumed) \in Nat /\ Len(stdin) \in Nat
  BY DEF SessionInv, ExchangeTypes
<1>3. stdin' \in Seq(Order)
  BY <1>1, <1>2
<1> DEFINE n == Len(resumed)
<1>4. n <= Len(sent) /\ Taken(child, n) = n /\ Waits(stdin, Ahead(child, at), n, sent, Behind(at))
  BY <1>1 DEF SessionInv, UnreadInv, Unread, Taken, Live
<1>5. at \notin {"new", "unborn"}
  <2>1. CASE at \in {"new", "unborn"}
    <3>1. Ahead(child, at) = 0 /\ Behind(at) = 0 /\ Len(sent) = n
      BY <2>1 DEF Ahead, Behind, Asks, SessionInv, ValueInv
    <3>2. Len(stdin) = 0
      <4>1. Len(stdin) = (0 + (n - n)) + 0
        BY <1>4, <3>1 DEF Waits
      <4> QED BY <4>1, <1>2
    <3> QED BY <3>2, <1>1, <1>2
  <2> QED BY <2>1
<1>6. CASE ~ok
  <2>1. child' = "exiting" /\ \E line \in EndLines : queue' = Append(queue, line)
    BY <1>1, <1>6 DEF EndLines
  <2> QED BY <2>1, <1>1, <1>3, <1>5, ChildEnds
<1>7. CASE ok
  <2>1. child' = "reading" /\ queue' = queue
    BY <1>1, <1>7
  <2>2. ExchangeTypes'
    BY <1>1, <1>3, <2>1 DEF SessionInv, ExchangeTypes
  <2>3. ThreadInv' /\ SignalInv'
    BY <1>1, <1>5, <2>1, ChildLeavesSignals DEF SessionInv
  <2>4. ValueInv' /\ AnswerInv'
    <3>1. UNCHANGED <<at, sent, resumed, returned, queue>>
      BY <1>1, <2>1
    <3> QED BY <3>1 DEF SessionInv, ValueInv, AnswerInv, NoAnswer, OnlyAnswer
  <2>5. UnreadInv'
    <3>1. Ahead(child, at) = 1 /\ Ahead("reading", at) = 0 /\ Taken("reading", n) = n /\ Behind(at) \in Nat
      BY <1>1, <1>5 DEF Ahead, Taken, Behind
    <3>2. Waits(stdin, 1, n, sent, Behind(at))
      BY <1>4, <3>1
    <3>3. Waits(Tail(stdin), 0, n, sent, Behind(at))
      <4> HIDE DEF n
      <4> QED BY <3>1, <3>2, <1>2, <1>4, StartTaken DEF n
    <3>4. Unread("reading", at, Tail(stdin), resumed, sent, held)
      BY <3>1, <3>3, <1>4 DEF Unread
    <3> QED BY <3>4, <1>1, <2>1 DEF UnreadInv, Unread, Waits, Ahead, Behind, Taken
  <2> QED BY <2>2, <2>3, <2>4, <2>5 DEF SessionInv
<1> QED BY <1>6, <1>7

\* The child takes what it reads first: a value its agent has not been resumed with, or its end.
LEMMA TakeKeeps == SessionInv /\ X!Take => SessionInv'
<1> SUFFICES ASSUME SessionInv, X!Take PROVE SessionInv'
  OBVIOUS
<1>1. /\ child = "reading" /\ stdin # <<>> /\ stdin' = Tail(stdin)
      /\ child' = (IF Head(stdin).type = "close" THEN "exiting" ELSE "running")
      /\ held' = (IF Head(stdin).type = "close" THEN None ELSE Head(stdin).of)
      /\ UNCHANGED <<backend, at, late, sent, returned, termination, signal, queue, resumed, noise>>
  BY DEF X!Take, X!session
<1>2. stdin \in Seq(Order) /\ sent \in Seq(Nat) /\ Len(resumed) \in Nat
  BY DEF SessionInv, ExchangeTypes
<1>3. stdin' \in Seq(Order)
  BY <1>1, <1>2
<1>4. at # "new"
  BY <1>1 DEF SessionInv, ThreadInv
<1>5. CASE Head(stdin).type = "close"
  <2>1. child' = "exiting" /\ UNCHANGED queue
    BY <1>1, <1>5
  <2> QED BY <2>1, <1>1, <1>3, <1>4, ChildEnds
<1>6. CASE Head(stdin).type # "close"
  <2>1. child' = "running" /\ held' = Head(stdin).of /\ queue' = queue
    BY <1>1, <1>6
  <2>2. ExchangeTypes'
    BY <1>1, <1>3, <2>1 DEF SessionInv, ExchangeTypes
  <2>3. ThreadInv' /\ SignalInv'
    BY <1>1, <1>4, <2>1, ChildLeavesSignals DEF SessionInv
  <2>4. ValueInv' /\ AnswerInv'
    <3>1. UNCHANGED <<at, sent, resumed, returned, queue>>
      BY <1>1, <2>1
    <3> QED BY <3>1 DEF SessionInv, ValueInv, AnswerInv, NoAnswer, OnlyAnswer
  <2>5. UnreadInv'
    <3> DEFINE n == Len(resumed)
    <3>1. /\ Ahead(child, at) = 0 /\ Ahead("running", at) = 0 /\ Taken(child, n) = n /\ Taken("running", n) = n + 1
          /\ Behind(at) \in Nat
      BY <1>1 DEF Ahead, Taken, Behind
    <3>2. n <= Len(sent) /\ Waits(stdin, 0, n, sent, Behind(at)) /\ n \in Nat
      BY <1>1, <1>2, <3>1 DEF SessionInv, UnreadInv, Unread, Live
    <3>3. /\ n + 1 <= Len(sent) /\ Head(stdin).of = sent[n + 1]
          /\ Waits(Tail(stdin), 0, n + 1, sent, Behind(at))
      <4> HIDE DEF n
      <4> QED BY <3>1, <3>2, <1>1, <1>2, <1>6, ValueTaken
    <3>4. Unread("running", at, Tail(stdin), resumed, sent, Head(stdin).of)
      BY <3>1, <3>3 DEF Unread
    <3> QED BY <3>4, <1>1, <2>1 DEF UnreadInv, Unread, Waits, Ahead, Behind, Taken
  <2> QED BY <2>2, <2>3, <2>4, <2>5 DEF SessionInv
<1> QED BY <1>5, <1>6

\* The agent is resumed with the value the child took last, and its answer is to that value.
LEMMA ResumeKeeps ==
    ASSUME SessionInv, NEW how \in {"step", "result", "error"}, X!Resume(how)
    PROVE  SessionInv'
<1> DEFINE line == X!Line(how, held)
<1>1. /\ child = "running" /\ child' = (IF how = "step" THEN "reading" ELSE "exiting")
      /\ queue' = Append(queue, line) /\ resumed' = Append(resumed, held)
      /\ UNCHANGED <<backend, at, late, sent, returned, termination, signal, stdin, held, noise>>
  BY DEF X!Resume, X!session
<1>2. child' \in {"reading", "exiting"} /\ at # "new"
  BY <1>1 DEF SessionInv, ThreadInv
<1>3. PICK n \in Nat, r \in Nat, m \in Nat : n = Len(sent) /\ r = Len(resumed) /\ m = Len(queue)
  BY DEF SessionInv, ExchangeTypes
<1>4. r + 1 <= n /\ held = sent[r + 1] /\ Waits(stdin, Ahead(child, at), r + 1, sent, Behind(at))
  <2>1. Taken(child, Len(resumed)) = r + 1
    BY <1>1, <1>3 DEF Taken
  <2> QED BY <2>1, <1>1, <1>3 DEF SessionInv, UnreadInv, Unread, Live
<1>5. held \in Nat
  <2>1. r + 1 \in 1..n /\ sent \in Seq(Nat)
    BY <1>3, <1>4 DEF SessionInv, ExchangeTypes
  <2> QED BY <2>1, <1>3, <1>4
<1>6. /\ resumed' \in Seq(Nat) /\ Len(resumed') = r + 1 /\ resumed'[r + 1] = held
      /\ \A i \in 1..r : resumed'[i] = resumed[i]
  BY <1>1, <1>3, <1>5, PutBehind DEF SessionInv, ExchangeTypes
<1>7. line \in Reply /\ line.of = held
  BY <1>5 DEF X!Line, Reply
<1>8. /\ queue' \in Seq(Reply) /\ Len(queue') = m + 1 /\ queue'[m + 1] = line
      /\ \A i \in 1..m : queue'[i] = queue[i]
  <2> HIDE DEF line
  <2> QED BY <1>1, <1>3, <1>7, PutBehind DEF SessionInv, ExchangeTypes
<1> HIDE DEF line
<1>9. ExchangeTypes'
  <2>1. child' \in {"none", "starting", "reading", "running", "exiting", "gone"}
    BY <1>2
  <2> QED BY <2>1, <1>1, <1>6, <1>8 DEF SessionInv, ExchangeTypes
<1>10. ThreadInv' /\ SignalInv'
  BY <1>1, <1>2, ChildLeavesSignals DEF SessionInv
<1>11. ValueInv'
  <2>1. at \notin {"idle", "unborn"}
    BY <1>3, <1>4 DEF SessionInv, ValueInv
  <2>2. r <= n /\ \A i \in 1..r : resumed[i] = sent[i]
    BY <1>3 DEF SessionInv, ValueInv
  <2>3. ASSUME NEW i \in 1..(r + 1)
        PROVE  resumed'[i] = sent[i]
    <3>1. CASE i = r + 1
      BY <3>1, <1>4, <1>6
    <3>2. CASE i \in 1..r
      BY <3>2, <2>2, <1>6
    <3> QED BY <3>1, <3>2
  <2>4. ASSUME NEW i \in 1..Len(returned)
        PROVE  returned[i].of = i /\ i <= r + 1 /\ resumed'[i] = i
    <3>1. returned[i].of = i /\ i <= r /\ resumed[i] = i
      BY <1>3 DEF SessionInv, ValueInv
    <3>2. i \in 1..r /\ i <= r + 1
      <4>1. i \in Nat /\ i >= 1
        BY DEF SessionInv, ExchangeTypes
      <4> QED BY <4>1, <3>1
    <3> QED BY <3>1, <3>2, <1>6
  <2>5. at = "read" => Len(returned) + 1 = n /\ n <= (r + 1) + 1
    <3>1. at = "read" => Len(returned) + 1 = n
      BY <1>3 DEF SessionInv, ValueInv
    <3>2. at = "read" => n <= r + 1
      BY <1>3 DEF SessionInv, ValueInv
    <3> QED BY <3>1, <3>2
  <2>6. at \in Sending => \A i \in 1..n : sent[i] = i
    BY <1>3 DEF SessionInv, ValueInv
  <2>7. at' = at /\ sent' = sent /\ returned' = returned
    BY <1>1
  <2> QED BY <2>1, <2>3, <2>4, <2>5, <2>6, <2>7, <1>2, <1>3, <1>4, <1>6 DEF ValueInv
<1>12. AnswerInv'
  <2>1. at' = at /\ sent' = sent
    BY <1>1
  <2>2. at # "idle"
    BY <1>3, <1>4 DEF SessionInv, ValueInv
  <2>3. CASE at # "read"
    BY <2>1, <2>2, <2>3, <1>2 DEF AnswerInv
  <2>4. CASE at = "read"
    <3>1. n = r + 1 /\ \A i \in 1..n : sent[i] = i
      <4>1. n <= r + 1 /\ \A i \in 1..n : sent[i] = i
        BY <2>4, <1>3 DEF SessionInv, ValueInv, Sending
      <4> QED BY <4>1, <1>4
    <3>2. held = n
      BY <3>1, <1>4
    <3>3. \A k \in 1..m : ~Answer(queue[k])
      <4>1. Len(resumed) # Len(sent)
        BY <3>1, <1>3
      <4> QED BY <4>1, <2>4, <1>3 DEF SessionInv, AnswerInv, NoAnswer
    <3>4. ASSUME NEW k \in 1..(m + 1), Answer(queue'[k])
          PROVE  k = m + 1 /\ queue'[k].of = n
      <4>1. k = m + 1
        BY <3>3, <3>4, <1>8
      <4> QED BY <4>1, <3>2, <1>7, <1>8
    <3>5. OnlyAnswer(queue', n)
      BY <3>4, <1>8 DEF OnlyAnswer
    <3>6. Len(resumed') = Len(sent')
      BY <3>1, <2>1, <1>3, <1>6
    <3>7. at' = "read" /\ n = Len(sent')
      BY <2>1, <2>4, <1>3
    <3> QED BY <3>5, <3>6, <3>7 DEF AnswerInv, OnlyAnswer
  <2> QED BY <2>3, <2>4
<1>13. UnreadInv'
  <2>1. CASE child' = "exiting"
    BY <2>1, SameUnread DEF SessionInv, Live
  <2>2. CASE child' = "reading"
    <3>1. Ahead(child, at) = Ahead("reading", at) /\ Taken("reading", r + 1) = r + 1
      BY <1>1 DEF Ahead, Taken
    <3>2. Len(resumed') = r + 1 /\ Len(sent) = n /\ "reading" # "running"
      BY <1>3, <1>6
    <3>3. Unread("reading", at, stdin, resumed', sent, held)
      BY <3>1, <3>2, <1>4 DEF Unread
    <3> QED BY <3>3, <2>2, <1>1 DEF UnreadInv, Unread, Waits, Ahead, Behind, Taken
  <2> QED BY <2>1, <2>2, <1>2
<1> QED BY <1>9, <1>10, <1>11, <1>12, <1>13 DEF SessionInv

\* What the agent prints itself lands between the answers.
LEMMA ChatterKeeps == SessionInv /\ X!Chatter => SessionInv'
<1> SUFFICES ASSUME SessionInv, X!Chatter PROVE SessionInv'
  OBVIOUS
<1> DEFINE line == X!Line("noise", None)
<1>1. /\ child = "running" /\ queue' = Append(queue, line)
      /\ UNCHANGED <<backend, at, late, sent, returned, termination, signal, stdin, child, held, resumed>>
  BY DEF X!Chatter, X!session
<1>2. line \in Reply /\ ~Answer(line)
  BY EndLineFacts DEF EndLines
<1> HIDE DEF line
<1>3. AnswerInv' /\ queue' \in Seq(Reply)
  BY <1>1, <1>2, NoiseQueued DEF SessionInv
<1>4. ExchangeTypes'
  BY <1>1, <1>3 DEF SessionInv, ExchangeTypes
<1>5. ThreadInv' /\ SignalInv'
  BY <1>1, ChildLeavesSignals DEF SessionInv, ThreadInv
<1>6. ValueInv'
  BY <1>1, ChildLeavesValues
<1>7. UnreadInv'
  BY <1>1, SameUnread DEF SessionInv
<1> QED BY <1>3, <1>4, <1>5, <1>6, <1>7 DEF SessionInv

LEMMA EndKeeps ==
    ASSUME SessionInv, X!Exit \/ X!Die \/ \E torn \in BOOLEAN : X!Crash(torn)
    PROVE  SessionInv'
<1>1. UNCHANGED <<backend, at, late, sent, returned, termination, signal, stdin, held, resumed>>
  BY DEF X!Exit, X!Die, X!Crash, X!session
<1>2. child # "gone" /\ child' = "gone"
  BY DEF X!Exit, X!Die, X!Crash, X!Alive
<1>3. child # "none"
  BY DEF X!Exit, X!Die, X!Crash, SessionInv, ThreadInv
<1>4. \/ \E line \in EndLines : queue' = Append(queue, line)
      \/ \E one, two \in EndLines : queue' = Append(Append(queue, one), two)
  <2>1. CASE queue' = Append(queue, X!Eof)
    BY <2>1 DEF EndLines
  <2>2. CASE queue' = queue \o <<X!Line("noise", None), X!Eof>>
    <3>1. \A q \in Seq(Reply), a, b \in Reply : q \o <<a, b>> = Append(Append(q, a), b)
      OBVIOUS
    <3>2. X!Line("noise", None) \in EndLines /\ X!Eof \in EndLines
      BY DEF EndLines
    <3>3. queue' = Append(Append(queue, X!Line("noise", None)), X!Eof)
      BY <3>1, <3>2, <2>2, EndLineFacts DEF SessionInv, ExchangeTypes
    <3> QED BY <3>2, <3>3
  <2> QED BY <2>1, <2>2 DEF X!Exit, X!Die, X!Crash
<1>5. stdin' \in Seq(Order)
  BY <1>1 DEF SessionInv, ExchangeTypes
<1> QED BY <1>1, <1>2, <1>3, <1>4, <1>5, ChildEnds

LEMMA NextSession == SessionInv /\ X!Next => SessionInv'
<1> SUFFICES ASSUME SessionInv, X!Next PROVE SessionInv'
  OBVIOUS
<1>1. CASE X!Caller
  BY <1>1, InprocNextKeeps, InprocCancelKeeps, CallerMoves, OpenKeeps, ReadKeeps, CancelKeeps, CloseKeeps,
     SendKeeps DEF X!Caller, X!Closing
<1>2. CASE X!Expire
  BY <1>2, CallerMoves
<1>3. CASE X!Child
  BY <1>3, BootKeeps, TakeKeeps, ChatterKeeps, EndKeeps, ResumeKeeps DEF X!Child
<1> QED BY <1>1, <1>2, <1>3 DEF X!Next

LEMMA SessionFollows == SessionInv => X!TypeOK /\ X!ItemsAnswerTheirValues /\ X!ClosedIsReaped
<1> SUFFICES ASSUME SessionInv PROVE X!TypeOK /\ X!ItemsAnswerTheirValues /\ X!ClosedIsReaped
  OBVIOUS
<1>1. ExchangeTypes /\ ThreadInv /\ SignalInv /\ ValueInv
  BY DEF SessionInv
<1>2. X!TypeOK
  <2>1. \A line \in X!ToSet(stdin) : line.type \in {"start", "send", "close"}
    <3>1. \A i \in DOMAIN stdin : stdin[i] \in Order
      BY <1>1 DEF ExchangeTypes
    <3>2. \A i \in DOMAIN stdin : stdin[i].type \in {"start", "send", "close"}
      BY <3>1 DEF Order
    <3> QED BY <3>2 DEF X!ToSet
  <2>2. \A line \in X!ToSet(queue) : line.type \in {"step", "result", "error", "noise", "eof"}
    <3>1. \A i \in DOMAIN queue : queue[i] \in Reply
      BY <1>1 DEF ExchangeTypes
    <3>2. \A i \in DOMAIN queue : queue[i].type \in {"step", "result", "error", "noise", "eof"}
      BY <3>1 DEF Reply
    <3> QED BY <3>2 DEF X!ToSet
  <2> QED BY <1>1, <2>1, <2>2 DEF X!TypeOK, ExchangeTypes, Places
<1>3. X!ItemsAnswerTheirValues
  <2>1. PICK n \in Nat, r \in Nat, k \in Nat : n = Len(sent) /\ r = Len(resumed) /\ k = Len(returned)
    BY <1>1 DEF ExchangeTypes
  <2>2. sent \in Seq(Nat) /\ resumed \in Seq(Nat) /\ returned \in Seq(Reply)
    BY <1>1 DEF ExchangeTypes
  <2>3. X!IsPrefix(resumed, sent)
    <3>1. r <= n /\ \A i \in 1..r : resumed[i] = sent[i]
      BY <1>1, <2>1 DEF ValueInv
    <3>2. SubSeq(resumed, 1, r) = SubSeq(sent, 1, r)
      BY <3>1, <2>1, <2>2
    <3> QED BY <3>1, <3>2, <2>1 DEF X!IsPrefix
  <2>4. ASSUME NEW i \in DOMAIN returned
        PROVE  returned[i].of = i /\ i \in DOMAIN resumed /\ resumed[i] = i
    <3>1. i \in 1..k
      BY <2>1, <2>2
    <3>2. returned[i].of = i /\ i <= r /\ resumed[i] = i
      BY <3>1, <1>1, <2>1 DEF ValueInv
    <3>3. i \in 1..r
      BY <3>1, <3>2
    <3> QED BY <3>2, <3>3, <2>1, <2>2
  <2> QED BY <2>3, <2>4 DEF X!ItemsAnswerTheirValues
<1>4. X!ClosedIsReaped
  BY <1>1 DEF SignalInv, X!ClosedIsReaped
<1> QED BY <1>2, <1>3, <1>4

LEMMA SameSession == SessionInv /\ UNCHANGED exec => SessionInv'
<1> SUFFICES ASSUME SessionInv, UNCHANGED exec PROVE SessionInv'
  OBVIOUS
<1>1. UNCHANGED <<backend, at, late, sent, returned, termination, signal, stdin, queue, child, held, resumed>>
  BY DEF exec
<1>2. ExchangeTypes' /\ ThreadInv' /\ SignalInv' /\ ValueInv'
  BY <1>1 DEF SessionInv, ExchangeTypes, ThreadInv, SignalInv, ValueInv
<1>3. AnswerInv'
  BY <1>1 DEF SessionInv, AnswerInv, NoAnswer, OnlyAnswer
<1>4. UnreadInv'
  BY <1>1, SameUnread DEF SessionInv
<1> QED BY <1>2, <1>3, <1>4 DEF SessionInv

-----------------------------------------------------------------------------
(* The Manager and its sessions, each for itself.                            *)
LegacyInv == (part = "manager" => ManagerInv) /\ (part = "session" => SessionInv)

LEMMA LegacyStarts == InitLegacy => LegacyInv
<1> SUFFICES ASSUME InitLegacy PROVE LegacyInv
  OBVIOUS
<1>1. part = "manager" => Init
  BY DEF InitLegacy
<1>2. part = "session" => X!Init
  BY DEF InitLegacy
<1> QED BY <1>1, <1>2, InitIInv, InitLimits, SessionStarts DEF LegacyInv, ManagerInv

LEMMA NextLegacyInv == LegacyInv /\ [NextLegacy]_<<part, vars, exec, audit>> => LegacyInv'
<1> SUFFICES ASSUME LegacyInv, [NextLegacy]_<<part, vars, exec, audit>> PROVE LegacyInv'
  OBVIOUS
<1>1. part' = part
  BY DEF NextLegacy
<1>2. ASSUME part = "manager"
      PROVE  ManagerInv'
  <2>1. ManagerInv
    BY <1>2 DEF LegacyInv
  <2>2. [Next]_vars
    BY <1>2 DEF NextLegacy
  <2> QED BY <2>1, <2>2, NextManagerInv
<1>3. ASSUME part = "session"
      PROVE  SessionInv'
  <2>1. SessionInv
    BY <1>3 DEF LegacyInv
  <2>2. X!Next \/ UNCHANGED exec
    BY <1>3 DEF NextLegacy
  <2> QED BY <2>1, <2>2, NextSession, SameSession
<1> QED BY <1>1, <1>2, <1>3 DEF LegacyInv

(* Every agent's session is released before the Manager goes on, no branch   *)
(* spends more steps than its stage and no composition more than its sum of  *)
(* branches allows, whatever agents, tools and the store do; and on the      *)
(* other side of the session the n-th item the Manager gets is what the      *)
(* agent made of the n-th value it sent, and close leaves no child process,  *)
(* whatever that child prints, ignores or dies of.                           *)
THEOREM SessionsAreReleased == SpecLegacy => []SessionsHold
<1>1. InitLegacy => LegacyInv
  BY LegacyStarts
<1>2. LegacyInv /\ [NextLegacy]_<<part, vars, exec, audit>> => LegacyInv'
  BY NextLegacyInv
<1>3. LegacyInv => SessionsHold
  <2>1. ASSUME LegacyInv, part = "manager"
        PROVE  TypeOK /\ SessionsReleased /\ StageBudget /\ CompositionBudget
    BY <2>1, LimitsFollow DEF LegacyInv
  <2>2. ASSUME LegacyInv, part = "session"
        PROVE  X!TypeOK /\ X!ItemsAnswerTheirValues /\ X!ClosedIsReaped
    BY <2>2, SessionFollows DEF LegacyInv
  <2> QED BY <2>1, <2>2 DEF SessionsHold
<1> QED BY <1>1, <1>2, <1>3, PTL DEF SpecLegacy
=============================================================================

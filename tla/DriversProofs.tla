---------------------------- MODULE DriversProofs ----------------------------
(* Proofs about Session, for any directives, callables, artifacts and bounds: what a     *)
(* caller was answered stays in the durable ledger, under an id of its own; a plan's     *)
(* verdict is its steps'; and a replay changes no store of the live session.  And about  *)
(* CbpDriver, for any children, values, paths, calls and at least two attempts: what the *)
(* copies that re-sending makes can and cannot do.                                       *)
EXTENDS MCDrivers, SequenceTheorems, TLAPS

-----------------------------------------------------------------------------
(* Ledgers: sequences of rows.                                                            *)

IsRow(r) == r = [cid |-> r.cid, d |-> r.d, out |-> r.out]
IsRows(s) == s \in Seq({s[i] : i \in DOMAIN s}) /\ \A i \in DOMAIN s : IsRow(s[i])

\* A row appended is the last one, and the others stay.
LEMMA RowAppended ==
  ASSUME NEW s, IsRows(s), NEW r, IsRow(r)
  PROVE  LET t == Append(s, r) IN
         /\ IsRows(t)
         /\ Len(s) \in Nat /\ Len(t) = Len(s) + 1
         /\ DOMAIN s = 1..Len(s) /\ DOMAIN t = 1..Len(t)
         /\ \A i \in DOMAIN s : t[i] = s[i]
         /\ t[Len(t)] = r
<1> DEFINE t == Append(s, r)
<1> DEFINE S == {s[i] : i \in DOMAIN s} \cup {r}
<1>1. s \in Seq(S)
  <2>1. {s[i] : i \in DOMAIN s} \subseteq S
    OBVIOUS
  <2> QED BY <2>1, s \in Seq({s[i] : i \in DOMAIN s}), SeqMonotonic DEF IsRows
<1> HIDE DEF S
<1>2. r \in S
  BY DEF S
<1>3. /\ Len(s) \in Nat /\ Len(t) = Len(s) + 1
      /\ DOMAIN s = 1..Len(s) /\ DOMAIN t = 1..Len(t)
      /\ \A i \in DOMAIN s : t[i] = s[i]
      /\ t[Len(t)] = r
  BY <1>1, <1>2
<1>4. t \in Seq(S)
  BY <1>1, <1>2
<1> HIDE DEF t
<1>5. t \in Seq({t[i] : i \in DOMAIN t})
  BY <1>4, <1>3
<1>6. \A i \in DOMAIN t : IsRow(t[i])
  BY <1>3 DEF IsRows
<1> QED BY <1>3, <1>5, <1>6 DEF IsRows, t

\* An outcome changes the outcome of the rows with the pending id only.
LEMMA OutcomeSet ==
  ASSUME NEW s, IsRows(s), NEW out, NEW t, t = WithOut(s, out)
  PROVE  /\ IsRows(t)
         /\ Len(s) \in Nat /\ Len(t) = Len(s) /\ DOMAIN s = 1..Len(s) /\ DOMAIN t = DOMAIN s
         /\ \A i \in DOMAIN s :
              /\ t[i].cid = s[i].cid /\ t[i].d = s[i].d
              /\ s[i].cid # pending => t[i] = s[i]
              /\ s[i].cid = pending /\ s[i].d.kind # "configure_child" => t[i].out = out
<1>1. Len(s) \in Nat /\ DOMAIN s = 1..Len(s)
  BY DEF IsRows
<1>2. DOMAIN t = 1..Len(s) /\ t \in Seq({t[i] : i \in DOMAIN t})
  BY <1>1 DEF WithOut
<1>3. Len(t) = Len(s)
  BY <1>1, <1>2
<1>4. ASSUME NEW i \in DOMAIN s
      PROVE  /\ IsRow(t[i]) /\ t[i].cid = s[i].cid /\ t[i].d = s[i].d
             /\ s[i].cid # pending => t[i] = s[i]
             /\ s[i].cid = pending /\ s[i].d.kind # "configure_child" => t[i].out = out
  <2>1. IsRow(s[i])
    BY DEF IsRows
  <2>2. t[i] = IF s[i].cid # pending \/ s[i].d.kind = "configure_child" THEN s[i]
               ELSE [s[i] EXCEPT !.out = out]
    BY DEF WithOut
  <2> QED BY <2>1, <2>2 DEF IsRow
<1> QED BY <1>1, <1>2, <1>3, <1>4 DEF IsRows

-----------------------------------------------------------------------------
(* The ledgers and the answers.                                                           *)

UniqueIds(s) == \A i, j \in DOMAIN s : s[i].cid = s[j].cid => i = j

\* The row of the directive that waits for its answer is the last one of both ledgers.
IsLast(s) == DOMAIN s # {} /\ s[Len(s)].cid = pending
PendingIsLast ==
  pending # None =>
    /\ IsLast(ledger) /\ IsLast(durable)
    /\ Last(ledger).d = Last(durable).d
    /\ Last(ledger).out = NoAnswer

\* An answer that a caller got is in a row that waits for nothing.
Kept(t) ==
  \E i \in DOMAIN durable :
    /\ durable[i] = [cid |-> t[2], d |-> t[3], out |-> t[4]]
    /\ pending = None \/ i # Len(durable)

LedgerInv ==
  /\ seq \in Nat
  /\ IsRows(ledger) /\ IsRows(durable)
  /\ \A i \in DOMAIN ledger : ledger[i].cid[2] \in 0..seq
  /\ UniqueIds(ledger) /\ UniqueIds(durable)
  /\ PendingIsLast
  /\ \A t \in told : Kept(t)

LEMMA InitLedgerInv == ASSUME Init PROVE LedgerInv
<1>1. ledger = <<>> /\ durable = <<>> /\ seq = 0 /\ pending = None /\ told = {}
  BY DEF Init
<1>2. IsRows(<<>>)
  BY DEF IsRows
<1> QED BY <1>1, <1>2 DEF LedgerInv, UniqueIds, PendingIsLast

\* A directive is refused, or recorded in the session's ledger, and then in the durable one too,
\* unless that has its id already.
LEMMA IssueSteps ==
  ASSUME NEW d, Issue(d), pending = None
  PROVE  LET cid == <<d.kind, seq + 1>>
             failed == plan' = IF Planning THEN [plan EXCEPT !.status = "failed"] ELSE plan
         IN /\ seq' = seq + 1
            /\ \/ UNCHANGED <<ledger, durable, pending>> /\ failed
               \/ /\ ledger' = Append(ledger, Row(cid, d)) /\ UNCHANGED <<durable, pending>>
                  /\ failed
               \/ /\ ledger' = Append(ledger, Row(cid, d)) /\ durable' = Append(durable, Row(cid, d))
                  /\ pending' = cid /\ plan' = plan
                  /\ \A i \in DOMAIN durable : durable[i].cid # cid
            /\ UNCHANGED <<catalog, tree, manifest, stores, replay, session, told>>
BY DEF Issue, Recorded, Finish

LEMMA IssueLedgers ==
  ASSUME LedgerInv, NEW d, Issue(d), pending = None
  PROVE  LedgerInv'
<1> DEFINE cid == <<d.kind, seq + 1>>
<1> DEFINE row == Row(cid, d)
<1>1. cid[2] = seq + 1 /\ row.cid = cid /\ row.d = d /\ row.out = NoAnswer /\ seq \in Nat
  BY DEF LedgerInv, Row
<1>2. \A i \in DOMAIN ledger : ledger[i].cid # cid
  BY <1>1 DEF LedgerInv
<1>3. /\ seq' = seq + 1 /\ UNCHANGED told
      /\ \/ UNCHANGED <<ledger, durable, pending>>
         \/ ledger' = Append(ledger, row) /\ UNCHANGED <<durable, pending>>
         \/ /\ ledger' = Append(ledger, row) /\ durable' = Append(durable, row) /\ pending' = cid
            /\ \A i \in DOMAIN durable : durable[i].cid # cid
  BY IssueSteps
<1> HIDE DEF cid
<1>4. CASE ledger' = Append(ledger, row)
  <2>1. /\ IsRows(ledger') /\ Len(ledger) \in Nat /\ Len(ledger') = Len(ledger) + 1
        /\ DOMAIN ledger = 1..Len(ledger) /\ DOMAIN ledger' = 1..Len(ledger')
        /\ \A i \in DOMAIN ledger : ledger'[i] = ledger[i]
        /\ ledger'[Len(ledger')] = row
    <3>1. IsRows(ledger) /\ ledger' = Append(ledger, row)
      BY <1>4 DEF LedgerInv
    <3>2. IsRow(row)
      BY DEF row, Row, IsRow
    <3> HIDE DEF row
    <3> QED BY <3>1, <3>2, RowAppended
  <2> HIDE DEF row
  <2>2. UniqueIds(ledger')
    BY <1>1, <1>2, <2>1 DEF UniqueIds, LedgerInv
  <2>3. \A i \in DOMAIN ledger' : ledger'[i].cid[2] \in 0..seq'
    BY <1>1, <1>3, <2>1 DEF LedgerInv
  <2>4. CASE UNCHANGED <<durable, pending>>
    <3>1. PendingIsLast'
      BY <2>4 DEF PendingIsLast
    <3>2. \A t \in told' : Kept(t)'
      BY <1>3, <2>4 DEF LedgerInv, Kept
    <3> QED BY <1>1, <1>3, <2>1, <2>2, <2>3, <2>4, <3>1, <3>2 DEF LedgerInv, UniqueIds
  <2>5. CASE /\ durable' = Append(durable, row) /\ pending' = cid
             /\ \A i \in DOMAIN durable : durable[i].cid # cid
    <3>1. /\ IsRows(durable') /\ Len(durable) \in Nat /\ Len(durable') = Len(durable) + 1
          /\ DOMAIN durable = 1..Len(durable) /\ DOMAIN durable' = 1..Len(durable')
          /\ \A i \in DOMAIN durable : durable'[i] = durable[i]
          /\ durable'[Len(durable')] = row
      <4>1. IsRows(durable) /\ durable' = Append(durable, row)
        BY <2>5 DEF LedgerInv
      <4>2. IsRow(row)
        BY DEF row, Row, IsRow
      <4> HIDE DEF row
      <4> QED BY <4>1, <4>2, RowAppended
    <3>2. UniqueIds(durable')
      BY <1>1, <2>5, <3>1 DEF UniqueIds, LedgerInv
    <3>3. PendingIsLast'
      BY <1>1, <2>1, <2>5, <3>1 DEF PendingIsLast, IsLast, Last
    <3>4. \A t \in told' : Kept(t)'
      <4> SUFFICES ASSUME NEW t \in told PROVE Kept(t)'
        BY <1>3
      <4>1. PICK i \in DOMAIN durable : durable[i] = [cid |-> t[2], d |-> t[3], out |-> t[4]]
        BY DEF LedgerInv, Kept
      <4> QED BY <3>1, <4>1 DEF Kept
    <3> QED BY <1>1, <1>3, <2>1, <2>2, <2>3, <3>1, <3>2, <3>3, <3>4 DEF LedgerInv
  <2> QED BY <1>3, <2>4, <2>5, <1>4
<1>5. CASE UNCHANGED <<ledger, durable, pending>>
  <2>1. PendingIsLast'
    BY <1>5 DEF LedgerInv, PendingIsLast, IsLast, Last
  <2>2. \A t \in told' : Kept(t)'
    BY <1>3, <1>5 DEF LedgerInv, Kept
  <2> QED BY <1>1, <1>3, <1>5, <2>1, <2>2 DEF LedgerInv, UniqueIds
<1> QED BY <1>3, <1>4, <1>5

LEMMA AnswerLedgers == ASSUME LedgerInv, Answer PROVE LedgerInv'
<1> DEFINE out == Apply(tree, catalog, stores, Pending).out
<1>1. /\ pending # None /\ pending' = None /\ seq' = seq
      /\ ledger' = WithOut(ledger, out) /\ durable' = WithOut(durable, out)
      /\ told' = IF Pending.kind = "configure_child" THEN told
                 ELSE told \cup {<<session, pending, Pending, out>>}
  BY DEF Answer
<1> HIDE DEF out
<1>2. /\ IsRows(ledger') /\ DOMAIN ledger' = DOMAIN ledger
      /\ \A i \in DOMAIN ledger : ledger'[i].cid = ledger[i].cid
  BY <1>1, OutcomeSet DEF LedgerInv
<1>3. /\ IsRows(durable') /\ Len(durable) \in Nat /\ DOMAIN durable = 1..Len(durable)
      /\ DOMAIN durable' = DOMAIN durable
      /\ \A i \in DOMAIN durable :
           /\ durable'[i].cid = durable[i].cid /\ durable'[i].d = durable[i].d
           /\ durable[i].cid # pending => durable'[i] = durable[i]
           /\ durable[i].cid = pending /\ durable[i].d.kind # "configure_child" => durable'[i].out = out
  BY <1>1, OutcomeSet DEF LedgerInv
<1>4. /\ DOMAIN durable # {} /\ durable[Len(durable)].cid = pending
      /\ Pending = durable[Len(durable)].d
  BY <1>1 DEF LedgerInv, PendingIsLast, IsLast, Pending, Last
<1>5. Len(durable) \in DOMAIN durable
  BY <1>3, <1>4
<1>6. ASSUME NEW t \in told' PROVE Kept(t)'
  <2>1. CASE t \in told
    <3>1. PICK i \in DOMAIN durable : /\ durable[i] = [cid |-> t[2], d |-> t[3], out |-> t[4]]
                                      /\ pending = None \/ i # Len(durable)
      BY <2>1 DEF LedgerInv, Kept
    <3>2. durable[i].cid # pending
      BY <1>1, <1>4, <1>5, <3>1 DEF LedgerInv, UniqueIds
    <3> QED BY <1>1, <1>3, <3>1, <3>2 DEF Kept
  <2>2. CASE t = <<session, pending, Pending, out>> /\ Pending.kind # "configure_child"
    <3>1. t[2] = pending /\ t[3] = Pending /\ t[4] = out
      BY <2>2
    <3>2. durable'[Len(durable)].cid = pending /\ durable'[Len(durable)].d = Pending
          /\ durable'[Len(durable)].out = out
      BY <1>3, <1>4, <1>5, <2>2
    <3>3. IsRow(durable'[Len(durable)])
      BY <1>3, <1>5 DEF IsRows
    <3> QED BY <1>1, <1>3, <1>5, <3>1, <3>2, <3>3 DEF Kept, IsRow
  <2> QED BY <1>1, <2>1, <2>2
<1>7. UniqueIds(ledger') /\ UniqueIds(durable')
  BY <1>2, <1>3 DEF LedgerInv, UniqueIds
<1>8. seq' \in Nat /\ \A i \in DOMAIN ledger' : ledger'[i].cid[2] \in 0..seq'
  BY <1>1, <1>2 DEF LedgerInv
<1> QED BY <1>1, <1>2, <1>3, <1>6, <1>7, <1>8 DEF LedgerInv, PendingIsLast

\* Every other step leaves the rows alone.
LEMMA LedgersStay ==
  ASSUME LedgerInv, UNCHANGED <<seq, ledger, durable, told>>, pending' = pending \/ pending' = None
  PROVE  LedgerInv'
<1>1. PendingIsLast'
  BY DEF LedgerInv, PendingIsLast, IsLast, Last
<1>2. \A t \in told' : Kept(t)'
  BY DEF LedgerInv, Kept
<1> QED BY <1>1, <1>2 DEF LedgerInv, UniqueIds

LEMMA NextLedgerInv == ASSUME LedgerInv, [Next]_vars PROVE LedgerInv'
<1>1. ASSUME NEW n \in Names, Register(n) PROVE LedgerInv'
  BY <1>1, LedgersStay DEF Register
<1>2. ASSUME NEW d \in Directives, IssueDirective(d) PROVE LedgerInv'
  BY <1>2, IssueLedgers DEF IssueDirective, Free
<1>3. ASSUME Answer PROVE LedgerInv'
  BY <1>3, AnswerLedgers
<1>4. ASSUME NEW acted \in BOOLEAN, GiveUp(acted) PROVE LedgerInv'
  BY <1>4, LedgersStay DEF GiveUp
<1>5. ASSUME NEW a \in Artifacts, NEW v \in {None} \cup DOMAIN Accepts, Orchestrate(a, v) PROVE LedgerInv'
  BY <1>5, LedgersStay DEF Orchestrate
<1>6. ASSUME PlanStep PROVE LedgerInv'
  BY <1>6, IssueLedgers DEF PlanStep, Free
<1>7. ASSUME Reopen PROVE LedgerInv'
  <2>1. /\ seq' = 0 /\ ledger' = <<>> /\ pending' = None /\ UNCHANGED <<durable, told>>
    BY <1>7 DEF Reopen, Fresh
  <2>2. IsRows(<<>>)
    BY DEF IsRows
  <2>3. \A t \in told' : Kept(t)'
    BY <2>1 DEF LedgerInv, Kept
  <2> QED BY <2>1, <2>2, <2>3 DEF LedgerInv, UniqueIds, PendingIsLast
<1>8. ASSUME NEW from \in {"ledger", "durable"}, StartReplay(from) PROVE LedgerInv'
  BY <1>8, LedgersStay DEF StartReplay, live
<1>9. ASSUME ReplayNext PROVE LedgerInv'
  BY <1>9, LedgersStay DEF ReplayNext, live
<1>10. ASSUME NEW i \in DOMAIN ledger, ReplayOne(i) PROVE LedgerInv'
  BY <1>10, LedgersStay DEF ReplayOne, live
<1>11. CASE UNCHANGED vars
  BY <1>11, LedgersStay DEF vars
<1> QED BY <1>1, <1>2, <1>3, <1>4, <1>5, <1>6, <1>7, <1>8, <1>9, <1>10, <1>11 DEF Next

-----------------------------------------------------------------------------
\* What a caller was answered is in the durable ledger with its directive and its outcome, for
\* good, and no other row has its id, through lost answers, plans, replays and processes that end
\* anywhere (DirectiveLedger).
THEOREM AnswersStayRecorded == Spec => []AnsweredIsRecorded
<1>1. Init => LedgerInv
  BY InitLedgerInv
<1>2. LedgerInv /\ [Next]_vars => LedgerInv'
  BY NextLedgerInv
<1>3. LedgerInv => AnsweredIsRecorded
  BY DEF LedgerInv, UniqueIds, Kept, AnsweredIsRecorded
<1> QED BY <1>1, <1>2, <1>3, PTL DEF Spec

-----------------------------------------------------------------------------
(* Plans.                                                                                 *)

\* The plan's step k is recorded, and its outcome is not an error.
StepDone(k) ==
  \E i \in DOMAIN ledger :
    /\ ledger[i].cid = <<"run", plan.from + k>> /\ ledger[i].d = RunDirective(plan.steps[k])
    /\ ledger[i].out.terminal \in {"ok", "result"}

IsPlan == plan = [steps |-> plan.steps, next |-> plan.next, from |-> plan.from, status |-> plan.status]
\* While a plan runs, the steps before the next one are done, no directive but the plan's has been
\* issued since it started, and the one that waits for an answer is the next step.
PlanRuns ==
  plan # None /\ plan.status = "running" =>
    /\ IsPlan /\ plan.from \in Nat /\ plan.next \in 1..Len(plan.steps)
    /\ plan.steps \in Seq(Range(plan.steps))
    /\ \A k \in 1..(plan.next - 1) : StepDone(k)
    /\ pending = None => seq = plan.from + plan.next - 1
    /\ pending # None => /\ seq = plan.from + plan.next /\ pending = <<"run", seq>>
                         /\ Last(ledger).d = RunDirective(plan.steps[plan.next])
PlanInv == PlanRuns /\ (plan # None /\ plan.status = "ok" => \A k \in DOMAIN plan.steps : StepDone(k))

\* What an artifact becomes, if it is not refused, is a sequence of at least one step.
LEMMA ArtifactSteps ==
  ASSUME NEW a \in Artifacts, NEW v, PlanFromSchema(a, v) # Refused
  PROVE  LET steps == PlanFromSchema(a, v) IN steps \in Seq(Range(steps)) /\ Len(steps) \in Nat \ {0}
<1> DEFINE steps == PlanFromSchema(a, v)
<1>1. CASE a.intent = "run"
  <2>1. a.steps \in Seq(Range(a.steps)) /\ a.steps # <<>>
    BY <1>1, SessionConstants DEF PlanFromSchema, StepsFromList
  <2>2. Len(a.steps) \in Nat \ {0} /\ DOMAIN a.steps = 1..Len(a.steps)
    BY <2>1
  <2>3. steps = [i \in 1..Len(a.steps) |->
          [a.steps[i] EXCEPT !.verifier = IF a.steps[i].verifier = None THEN v ELSE a.steps[i].verifier]]
    BY <1>1, <2>2 DEF PlanFromSchema, StepsFromList
  <2> DEFINE n == Len(a.steps)
  <2> HIDE DEF steps, n
  <2>4. DOMAIN steps = 1..n /\ n \in Nat \ {0} /\ steps = [i \in 1..n |-> steps[i]]
    BY <2>2, <2>3 DEF n
  <2>5. steps \in Seq(Range(steps))
    BY <2>4 DEF Range
  <2> QED BY <2>4, <2>5 DEF steps
<1>2. CASE a.intent # "run"
  <2>1. PICK s : steps = <<s>>
    BY <1>2 DEF PlanFromSchema
  <2> HIDE DEF steps
  <2>2. steps \in Seq({s}) /\ Len(steps) = 1 /\ Range(steps) = {s}
    BY <2>1 DEF Range
  <2> QED BY <2>2 DEF steps
<1> QED BY <1>1, <1>2

\* A row that is done stays, whatever is recorded or answered after it.
LEMMA DoneStays ==
  ASSUME NEW k, StepDone(k), plan'.from = plan.from, plan'.steps = plan.steps,
         \A i \in DOMAIN ledger : ledger[i].out.terminal \in {"ok", "result"} =>
           i \in DOMAIN ledger' /\ ledger'[i] = ledger[i]
  PROVE  StepDone(k)'
BY DEF StepDone

LEMMA IssuePlan ==
  ASSUME LedgerInv, PlanInv, NEW d, Issue(d), pending = None, d.kind \in Kinds,
         Planning => d = RunDirective(plan.steps[plan.next])
  PROVE  PlanInv'
<1> DEFINE cid == <<d.kind, seq + 1>>
<1>1. seq' = seq + 1 /\ seq \in Nat
  BY IssueSteps DEF LedgerInv
<1>2. \/ UNCHANGED <<ledger, durable, pending>>
            /\ plan' = IF Planning THEN [plan EXCEPT !.status = "failed"] ELSE plan
      \/ /\ ledger' = Append(ledger, Row(cid, d)) /\ UNCHANGED <<durable, pending>>
         /\ plan' = IF Planning THEN [plan EXCEPT !.status = "failed"] ELSE plan
      \/ ledger' = Append(ledger, Row(cid, d)) /\ pending' = cid /\ plan' = plan
  BY IssueSteps
<1>3. /\ cid # None /\ IsRow(Row(cid, d)) /\ Row(cid, d).d = d /\ cid[1] = d.kind
  BY <1>1, SessionConstants DEF IsRow, Row
<1> HIDE DEF cid
<1>4. /\ \A i \in DOMAIN ledger : i \in DOMAIN ledger' /\ ledger'[i] = ledger[i]
      /\ ledger' # ledger => ledger'[Len(ledger')] = Row(cid, d)
  <2>1. CASE ledger' = Append(ledger, Row(cid, d))
    <3> DEFINE row == Row(cid, d)
    <3>1. IsRows(ledger) /\ IsRow(row) /\ ledger' = Append(ledger, row)
      BY <1>3, <2>1 DEF LedgerInv
    <3> HIDE DEF row
    <3>2. /\ Len(ledger) \in Nat /\ Len(ledger') = Len(ledger) + 1
          /\ DOMAIN ledger = 1..Len(ledger) /\ DOMAIN ledger' = 1..Len(ledger')
          /\ \A i \in DOMAIN ledger : ledger'[i] = ledger[i]
          /\ ledger'[Len(ledger')] = row
      BY <3>1, RowAppended
    <3> QED BY <3>2 DEF row
  <2> QED BY <1>2, <2>1
<1>5. ASSUME plan # None, plan.status \in {"running", "ok"}, plan'.from = plan.from,
             plan'.steps = plan.steps, NEW k, StepDone(k)
      PROVE  StepDone(k)'
  BY <1>4, <1>5, DoneStays
<1>6. CASE Planning
  <2>1. PlanRuns /\ plan # None /\ plan.status = "running" /\ d = RunDirective(plan.steps[plan.next])
    BY <1>6 DEF Planning, PlanInv
  <2>2. CASE plan' = [plan EXCEPT !.status = "failed"]
    BY <2>1, <2>2 DEF PlanInv, PlanRuns, IsPlan
  <2>3. CASE ledger' = Append(ledger, Row(cid, d)) /\ pending' = cid /\ plan' = plan
    <3>1. /\ seq' = plan'.from + plan'.next /\ pending' = <<"run", seq'>>
      BY <1>1, <2>1, <2>3 DEF PlanRuns, RunDirective, cid
    <3>2. Last(ledger').d = RunDirective(plan'.steps[plan'.next])
      BY <1>3, <1>4, <1>1, <2>1, <2>3, RowAppended DEF Last, LedgerInv
    <3>3. \A k \in 1..(plan'.next - 1) : StepDone(k)'
      BY <1>5, <2>1, <2>3 DEF PlanRuns
    <3> QED BY <1>3, <2>1, <2>3, <3>1, <3>2, <3>3 DEF PlanInv, PlanRuns, IsPlan
  <2> QED BY <1>2, <1>6, <2>2, <2>3
<1>7. CASE ~Planning
  <2>1. plan' = plan
    BY <1>2, <1>7
  <2> QED BY <1>5, <1>7, <2>1 DEF PlanInv, PlanRuns, Planning
<1> QED BY <1>6, <1>7

\* A run answers with a result or with an error.
LEMMA RunAnswers ==
  ASSUME NEW t, NEW cat, NEW s, NEW d, d.kind = "run"
  PROVE  Apply(t, cat, s, d).out.terminal \in {"ok", "result", "error"}
<1>1. Apply(t, cat, s, d) = Run(t, s, d)
  BY DEF Apply
<1> QED BY <1>1 DEF Run, Done, Ok, Error, Out

LEMMA AnswerPlan == ASSUME LedgerInv, PlanInv, Answer PROVE PlanInv'
<1> DEFINE out == Apply(tree, catalog, stores, Pending).out
<1>1. /\ pending # None /\ pending' = None /\ seq' = seq
      /\ ledger' = WithOut(ledger, out) /\ plan' = PlanOn(out)
  BY DEF Answer
<1>2. Pending.kind = "run" => out.terminal \in {"ok", "result", "error"}
  BY RunAnswers
<1> HIDE DEF out
<1>3. /\ Len(ledger') = Len(ledger) /\ DOMAIN ledger' = DOMAIN ledger
      /\ Len(ledger) \in Nat /\ DOMAIN ledger = 1..Len(ledger)
      /\ \A i \in DOMAIN ledger :
           /\ ledger'[i].cid = ledger[i].cid /\ ledger'[i].d = ledger[i].d
           /\ ledger[i].cid # pending => ledger'[i] = ledger[i]
           /\ ledger[i].cid = pending /\ ledger[i].d.kind # "configure_child" => ledger'[i].out = out
  BY <1>1, OutcomeSet DEF LedgerInv
<1>4. /\ DOMAIN ledger # {} /\ Last(ledger).cid = pending /\ Last(ledger).out = NoAnswer
      /\ Pending = Last(ledger).d /\ Last(ledger) = ledger[Len(ledger)]
  BY <1>1 DEF LedgerInv, PendingIsLast, IsLast, Pending, Last
<1>5. Len(ledger) \in DOMAIN ledger
  BY <1>3, <1>4
<1>6. \A i \in DOMAIN ledger : ledger[i].out.terminal \in {"ok", "result"} => ledger'[i] = ledger[i]
  <2>1. NoAnswer.terminal = "none"
    BY DEF NoAnswer, Out
  <2> QED BY <1>3, <1>4, <1>5, <2>1 DEF LedgerInv, UniqueIds
<1>7. ASSUME plan'.from = plan.from, plan'.steps = plan.steps, NEW k, StepDone(k)
      PROVE  StepDone(k)'
  BY <1>3, <1>6, <1>7, DoneStays
<1>8. CASE ~Planning
  <2>1. plan' = plan
    BY <1>1, <1>8 DEF PlanOn
  <2> QED BY <1>7, <1>8, <2>1 DEF PlanInv, PlanRuns, Planning
<1>9. CASE Planning
  <2>1. /\ plan # None /\ plan.status = "running" /\ IsPlan /\ plan.from \in Nat
        /\ Len(plan.steps) \in Nat /\ plan.next \in 1..Len(plan.steps)
        /\ plan.steps \in Seq(Range(plan.steps)) /\ DOMAIN plan.steps = 1..Len(plan.steps)
        /\ \A k \in 1..(plan.next - 1) : StepDone(k)
        /\ seq = plan.from + plan.next /\ pending = <<"run", seq>>
        /\ Pending = RunDirective(plan.steps[plan.next])
    <3>1. plan.steps \in Seq(Range(plan.steps))
      BY <1>9 DEF Planning, PlanInv, PlanRuns
    <3>2. Len(plan.steps) \in Nat /\ DOMAIN plan.steps = 1..Len(plan.steps)
      BY <3>1
    <3> QED BY <1>1, <1>4, <1>9, <3>1, <3>2 DEF Planning, PlanInv, PlanRuns
  <2>2. CASE out.terminal = "error"
    <3>1. plan' = [plan EXCEPT !.status = "failed"]
      BY <1>1, <1>9, <2>2 DEF PlanOn
    <3> QED BY <2>1, <3>1 DEF PlanInv, PlanRuns, IsPlan
  <2>3. CASE out.terminal # "error"
    <3>1. plan' = [plan EXCEPT !.next = plan.next + 1,
                              !.status = IF plan.next = Len(plan.steps) THEN "ok" ELSE "running"]
      BY <1>1, <1>9, <2>3 DEF PlanOn
    <3>2. /\ plan'.steps = plan.steps /\ plan'.from = plan.from /\ plan'.next = plan.next + 1
          /\ plan'.status = IF plan.next = Len(plan.steps) THEN "ok" ELSE "running"
          /\ IsPlan'
      BY <2>1, <3>1 DEF IsPlan
    <3>3. ASSUME NEW k, k = plan.next PROVE StepDone(k)'
      <4>1. Pending.kind = "run" /\ out.terminal \in {"ok", "result"}
        BY <1>2, <2>1, <2>3 DEF RunDirective
      <4>2. ledger'[Len(ledger)].out = out
        BY <1>3, <1>4, <1>5, <4>1
      <4>3. Len(ledger) \in DOMAIN ledger'
        BY <1>3, <1>5
      <4>4. ledger'[Len(ledger)].cid = <<"run", plan'.from + k>>
        BY <1>3, <1>4, <1>5, <2>1, <3>2, <3>3
      <4>5. ledger'[Len(ledger)].d = RunDirective(plan'.steps[k])
        BY <1>3, <1>4, <1>5, <2>1, <3>2, <3>3
      <4> QED BY <4>1, <4>2, <4>3, <4>4, <4>5 DEF StepDone
    <3>4. \A k \in 1..plan.next : StepDone(k)'
      <4>1. \A k \in 1..(plan.next - 1) : StepDone(k)'
        BY <1>7, <2>1, <3>2
      <4>2. \A k \in 1..plan.next : k = plan.next \/ k \in 1..(plan.next - 1)
        BY <2>1
      <4> QED BY <3>3, <4>1, <4>2
    <3>5. PlanRuns'
      BY <1>1, <2>1, <3>2, <3>4 DEF PlanRuns
    <3> QED BY <2>1, <3>2, <3>4, <3>5 DEF PlanInv
  <2> QED BY <2>2, <2>3
<1> QED BY <1>8, <1>9

\* Steps that start no plan and record nothing.
LEMMA PlanStays ==
  ASSUME PlanInv, UNCHANGED <<seq, ledger, pending, plan>>
  PROVE  PlanInv'
BY DEF PlanInv, PlanRuns, StepDone, IsPlan

LEMMA NextPlanInv == ASSUME LedgerInv, PlanInv, [Next]_vars PROVE PlanInv'
<1>1. ASSUME NEW n \in Names, Register(n) PROVE PlanInv'
  BY <1>1, PlanStays DEF Register
<1>2. ASSUME NEW d \in Directives, IssueDirective(d) PROVE PlanInv'
  BY <1>2, IssuePlan, SessionConstants DEF IssueDirective, Free
<1>3. ASSUME Answer PROVE PlanInv'
  BY <1>3, AnswerPlan
<1>4. ASSUME NEW acted \in BOOLEAN, GiveUp(acted) PROVE PlanInv'
  <2>1. ledger' = ledger /\ plan' = IF Planning THEN [plan EXCEPT !.status = "failed"] ELSE plan
    BY <1>4 DEF GiveUp, Finish
  <2>2. CASE Planning
    BY <2>1, <2>2 DEF Planning, PlanInv, PlanRuns, IsPlan
  <2>3. CASE ~Planning
    BY <2>1, <2>3 DEF Planning, PlanInv, PlanRuns, StepDone
  <2> QED BY <2>2, <2>3
<1>5. ASSUME NEW a \in Artifacts, NEW v \in {None} \cup DOMAIN Accepts, Orchestrate(a, v) PROVE PlanInv'
  <2> DEFINE steps == PlanFromSchema(a, v)
  <2>1. /\ pending = None /\ pending' = None /\ seq' = seq
        /\ plan' = IF steps = Refused THEN [steps |-> <<>>, next |-> 1, from |-> seq, status |-> "refused"]
                   ELSE [steps |-> steps, next |-> 1, from |-> seq, status |-> "running"]
    BY <1>5 DEF Orchestrate, Free
  <2>2. CASE steps = Refused
    BY <2>1, <2>2 DEF PlanInv, PlanRuns
  <2>3. CASE steps # Refused
    <3>1. steps \in Seq(Range(steps)) /\ Len(steps) \in Nat \ {0}
      BY <2>3, ArtifactSteps
    <3> HIDE DEF steps
    <3> QED BY <2>1, <2>3, <3>1 DEF PlanInv, PlanRuns, IsPlan, LedgerInv
  <2> QED BY <2>2, <2>3
<1>6. ASSUME PlanStep PROVE PlanInv'
  <2> DEFINE d == RunDirective(plan.steps[plan.next])
  <2>1. Issue(d) /\ pending = None
    BY <1>6 DEF PlanStep, Free
  <2>2. d.kind \in Kinds
    BY DEF RunDirective, Kinds
  <2> QED BY <2>1, <2>2, IssuePlan
<1>7. ASSUME Reopen PROVE PlanInv'
  BY <1>7 DEF Reopen, Fresh, PlanInv, PlanRuns
<1>8. ASSUME NEW from \in {"ledger", "durable"}, StartReplay(from) PROVE PlanInv'
  BY <1>8, PlanStays DEF StartReplay, live
<1>9. ASSUME ReplayNext PROVE PlanInv'
  BY <1>9, PlanStays DEF ReplayNext, live
<1>10. ASSUME NEW i \in DOMAIN ledger, ReplayOne(i) PROVE PlanInv'
  BY <1>10, PlanStays DEF ReplayOne, live
<1>11. CASE UNCHANGED vars
  BY <1>11, PlanStays DEF vars
<1> QED BY <1>1, <1>2, <1>3, <1>4, <1>5, <1>6, <1>7, <1>8, <1>9, <1>10, <1>11 DEF Next

\* A plan is ok only when each of its steps was issued, recorded in the plan's order with no other
\* directive between them, and answered by an outcome that is no error (CbpDriver.run_plan).
THEOREM PlansAreTheirSteps == Spec => []PlanVerdict
<1>1. Init => LedgerInv /\ PlanInv
  BY InitLedgerInv DEF Init, PlanInv, PlanRuns
<1>2. LedgerInv /\ PlanInv /\ [Next]_vars => (LedgerInv /\ PlanInv)'
  BY NextLedgerInv, NextPlanInv
<1>3. PlanInv => PlanVerdict
  BY DEF PlanInv, StepDone, PlanVerdict
<1> QED BY <1>1, <1>2, <1>3, PTL DEF Spec

-----------------------------------------------------------------------------
(* Replays.                                                                               *)

Outside(path) == path = None \/ path \notin Paths
IsAgent(b) == b = [codes |-> b.codes, verifier |-> b.verifier, path |-> b.path]
\* No agent of a tree has a store of the live session.
Isolated(t) == \A a \in DOMAIN t : IsAgent(t[a]) /\ Outside(t[a].path)

\* A recorded directive names the live session's stores, a replayed one names none of them.
Grants(d) == Opens(d) => {"kind", "state"} \subseteq DOMAIN d /\ d.state \in Paths \cup {None}
IsReplay(r) ==
  r = [from |-> r.from, rows |-> r.rows, todo |-> r.todo, failed |-> r.failed, tree |-> r.tree,
       catalog |-> r.catalog]
ReplayInv ==
  /\ \A i \in DOMAIN ledger : Grants(ledger[i].d)
  /\ \A i \in DOMAIN durable : Grants(durable[i].d)
  /\ replay # None =>
       /\ pending = None /\ IsReplay(replay) /\ Isolated(replay.tree)
       /\ replay.todo \subseteq DOMAIN replay.rows
       /\ \A i \in DOMAIN replay.rows : Grants(replay.rows[i].d)

LEMMA Remapped ==
  ASSUME NEW d, Grants(d), Opens(d)
  PROVE  RemapStatePaths(d).kind = d.kind /\ Outside(RemapStatePaths(d).state)
<1>1. RemapStatePaths(d) = [d EXCEPT !.state = Iso(d.state)]
  BY DEF Opens, RemapStatePaths
<1>2. RemapStatePaths(d).kind = d.kind /\ RemapStatePaths(d).state = Iso(d.state)
  BY <1>1 DEF Grants
<1>3. Outside(Iso(d.state))
  BY SessionConstants DEF Grants, Iso, Outside
<1> QED BY <1>2, <1>3

LEMMA SetKeepsIsolated ==
  ASSUME NEW t, Isolated(t), NEW a, NEW b, IsAgent(b), Outside(b.path)
  PROVE  Isolated(Set(t, a, b))
BY DEF Isolated, Set, Overlay

LEMMA SetOffLive ==
  ASSUME NEW s, NEW path, path \notin Paths, NEW v
  PROVE  OffLive(Set(s, path, v)) = OffLive(s)
<1>1. DOMAIN Set(s, path, v) \cap Paths = DOMAIN s \cap Paths
  BY DEF Set, Overlay
<1>2. \A x \in DOMAIN s \cap Paths : Set(s, path, v)[x] = s[x]
  BY DEF Set, Overlay
<1> QED BY <1>1, <1>2 DEF OffLive, Restrict

LEMMA ConfigureIsolated ==
  ASSUME NEW t, Isolated(t), NEW cat, NEW s, NEW d, Outside(d.state)
  PROVE  LET r == Configure(t, cat, s, d) IN Isolated(r.tree) /\ OffLive(r.stores) = OffLive(s)
<1> DEFINE a == IF d.child = None THEN "root" ELSE d.child
           ver == IF d.clear THEN None ELSE IF d.verifier # None THEN d.verifier ELSE t[a].verifier
           b == [t[a] EXCEPT !.verifier = ver]
           c == [b EXCEPT !.codes = Overlay(@, [n \in d.names |-> cat[n]]),
                          !.path = IF d.state = None THEN @ ELSE d.state]
           r == Configure(t, cat, s, d)
<1>1. CASE a \notin DOMAIN t
  <2>1. r = Done(t, s, Error)
    BY <1>1 DEF Configure
  <2> QED BY <2>1 DEF Done
<1>2. CASE a \in DOMAIN t
  <2>1. IsAgent(t[a]) /\ Outside(t[a].path)
    BY <1>2 DEF Isolated
  <2>2. IsAgent(b) /\ b.path = t[a].path
    BY <2>1 DEF IsAgent
  <2>3. IsAgent(c) /\ Outside(c.path)
    <3> DEFINE codes == Overlay(b.codes, [n \in d.names |-> cat[n]])
               store == IF d.state = None THEN b.path ELSE d.state
    <3>1. c = [b EXCEPT !.codes = codes, !.path = store]
      OBVIOUS
    <3>2. Outside(store)
      BY <2>1, <2>2
    <3> HIDE DEF b, c, codes, store
    <3>3. IsAgent(c) /\ c.path = store
      BY <2>2, <3>1 DEF IsAgent
    <3> QED BY <3>2, <3>3
  <2>4. \/ r = Done(Set(t, a, b), s, Error)
        \/ r = Done(Set(t, a, c), s, Ok)
        \/ d.state # None /\ r = Done(Set(t, a, c), Set(s, d.state, None), Ok)
    BY <1>2 DEF Configure
  <2> HIDE DEF a, b, c, r
  <2>5. \/ r.tree = Set(t, a, b) /\ r.stores = s
        \/ r.tree = Set(t, a, c) /\ r.stores = s
        \/ d.state # None /\ r.tree = Set(t, a, c) /\ r.stores = Set(s, d.state, None)
    BY <2>4 DEF Done
  <2>6. Isolated(Set(t, a, b)) /\ Isolated(Set(t, a, c))
    BY <2>1, <2>2, <2>3, SetKeepsIsolated
  <2>7. d.state # None => OffLive(Set(s, d.state, None)) = OffLive(s)
    BY SetOffLive DEF Outside
  <2> QED BY <2>5, <2>6, <2>7 DEF r
<1> QED BY <1>1, <1>2

LEMMA SpawnIsolated ==
  ASSUME NEW t, Isolated(t), NEW s, NEW d
  PROVE  LET r == Spawn(t, s, d) IN Isolated(r.tree) /\ r.stores = s
<1>1. IsAgent(NewAgent) /\ Outside(NewAgent.path)
  BY DEF IsAgent, NewAgent, Outside
<1>2. Isolated(Set(t, d.child, NewAgent))
  BY <1>1, SetKeepsIsolated
<1> QED BY <1>2 DEF Spawn, Done

LEMMA RunIsolated ==
  ASSUME NEW t, Isolated(t), NEW s, NEW d
  PROVE  LET r == Run(t, s, d) IN r.tree = t /\ OffLive(r.stores) = OffLive(s)
<1> DEFINE a == IF d.child = None THEN "root" ELSE d.child
           path == t[a].path
           r == Run(t, s, d)
<1>1. \/ r.tree = t /\ r.stores = s
      \/ a \in DOMAIN t /\ path # None /\ r.tree = t /\ r.stores = Set(s, path, d.args)
  BY DEF Run, Done
<1>2. a \in DOMAIN t /\ path # None => OffLive(Set(s, path, d.args)) = OffLive(s)
  BY SetOffLive DEF Isolated, Outside
<1> QED BY <1>1, <1>2

LEMMA ApplyIsolated ==
  ASSUME NEW t, Isolated(t), NEW cat, NEW s, NEW d, Replayed(d), Opens(d) => Outside(d.state)
  PROVE  LET r == Apply(t, cat, s, d) IN Isolated(r.tree) /\ OffLive(r.stores) = OffLive(s)
<1>1. CASE Opens(d)
  <2>1. Apply(t, cat, s, d) = Configure(t, cat, s, d)
    BY <1>1 DEF Apply, Opens
  <2> QED BY <1>1, <2>1, ConfigureIsolated
<1>2. CASE d.kind = "spawn"
  <2>1. Apply(t, cat, s, d) = Spawn(t, s, d)
    BY <1>2 DEF Apply
  <2> QED BY <2>1, SpawnIsolated
<1>3. CASE d.kind = "run"
  <2>1. Apply(t, cat, s, d) = Run(t, s, d)
    BY <1>3 DEF Apply
  <2> QED BY <2>1, RunIsolated
<1> QED BY <1>1, <1>2, <1>3 DEF Replayed, Opens

\* One step of a replay.
LEMMA ReplayStep ==
  ASSUME ReplayInv, ReplayNext
  PROVE  ReplayInv' /\ OffLive(stores') = OffLive(stores)
<1>1. /\ replay # None /\ pending = None /\ IsReplay(replay) /\ Isolated(replay.tree)
      /\ replay.todo \subseteq DOMAIN replay.rows
      /\ \A i \in DOMAIN replay.rows : Grants(replay.rows[i].d)
      /\ UNCHANGED <<pending, ledger, durable>>
  BY DEF ReplayNext, ReplayInv, live
<1>2. ASSUME NEW status, Reports(status) PROVE ReplayInv' /\ OffLive(stores') = OffLive(stores)
  <2>1. replay' = None /\ stores' = OffLive(stores)
    BY <1>2 DEF Reports
  <2>2. OffLive(OffLive(stores)) = OffLive(stores)
    BY DEF OffLive, Restrict
  <2> QED BY <1>1, <2>1, <2>2 DEF ReplayInv
<1>3. ASSUME NEW i \in replay.todo, Replayed(replay.rows[i].d),
             stores' = Apply(replay.tree, replay.catalog, stores, RemapStatePaths(replay.rows[i].d)).stores,
             NEW failed,
             replay' = [replay EXCEPT !.todo = replay.todo \ {i}, !.failed = failed,
               !.tree = Apply(replay.tree, replay.catalog, stores, RemapStatePaths(replay.rows[i].d)).tree]
      PROVE  ReplayInv' /\ OffLive(stores') = OffLive(stores)
  <2> DEFINE d == RemapStatePaths(replay.rows[i].d)
             r == Apply(replay.tree, replay.catalog, stores, d)
  <2>1. Grants(replay.rows[i].d)
    BY <1>1
  <2>2. Replayed(d) /\ (Opens(d) => Outside(d.state))
    <3>1. CASE Opens(replay.rows[i].d)
      BY <1>3, <2>1, <3>1, Remapped DEF Replayed
    <3>2. CASE ~Opens(replay.rows[i].d)
      BY <1>3, <3>2 DEF RemapStatePaths, Opens
    <3> QED BY <3>1, <3>2
  <2> HIDE DEF d
  <2>3. Isolated(r.tree) /\ OffLive(r.stores) = OffLive(stores)
    BY <1>1, <2>2, ApplyIsolated
  <2>4. stores' = r.stores
    BY <1>3 DEF d
  <2>5. replay' = [replay EXCEPT !.todo = replay.todo \ {i}, !.failed = failed, !.tree = r.tree]
    BY <1>3 DEF d
  <2> HIDE DEF r
  <2>6. /\ IsReplay(replay') /\ replay'.rows = replay.rows /\ replay'.todo = replay.todo \ {i}
        /\ replay'.tree = r.tree
    BY <1>1, <2>5 DEF IsReplay
  <2> QED BY <1>1, <2>3, <2>4, <2>6 DEF ReplayInv
<1>4. ASSUME NEW i \in replay.todo, replay' = [replay EXCEPT !.todo = replay.todo \ {i}], UNCHANGED stores
      PROVE  ReplayInv' /\ OffLive(stores') = OffLive(stores)
  <2>1. /\ IsReplay(replay') /\ replay'.rows = replay.rows /\ replay'.todo = replay.todo \ {i}
        /\ replay'.tree = replay.tree
    BY <1>1, <1>4 DEF IsReplay
  <2> QED BY <1>1, <1>4, <2>1 DEF ReplayInv
<1>5. CASE replay.todo = {} /\ Reports("done")
  BY <1>2, <1>5
<1>6. ASSUME NEW i \in replay.todo,
             LET row == replay.rows[i] rest == [replay EXCEPT !.todo = @ \ {i}]
                 r == Apply(replay.tree, replay.catalog, stores, RemapStatePaths(row.d))
             IN IF ~Replayed(row.d) THEN replay' = rest /\ UNCHANGED <<stores, report>>
                ELSE IF Raises(replay, row.d) THEN Reports("raised")
                ELSE /\ stores' = r.stores /\ UNCHANGED report
                     /\ replay' = [rest EXCEPT !.tree = r.tree,
                          !.failed = IF row.d.kind = "run" /\ row.out # r.out THEN Append(@, row.cid) ELSE @]
      PROVE  ReplayInv' /\ OffLive(stores') = OffLive(stores)
  <2> DEFINE row == replay.rows[i]
             r == Apply(replay.tree, replay.catalog, stores, RemapStatePaths(row.d))
             failed == IF row.d.kind = "run" /\ row.out # r.out THEN Append(replay.failed, row.cid)
                       ELSE replay.failed
  <2>1. CASE ~Replayed(row.d)
    BY <1>4, <1>6, <2>1
  <2>2. CASE Replayed(row.d) /\ Raises(replay, row.d)
    BY <1>2, <1>6, <2>2
  <2>3. CASE Replayed(row.d) /\ ~Raises(replay, row.d)
    <3>1. /\ stores' = r.stores
          /\ replay' = [[replay EXCEPT !.todo = @ \ {i}] EXCEPT !.tree = r.tree,
               !.failed = IF row.d.kind = "run" /\ row.out # r.out THEN Append(@, row.cid) ELSE @]
      BY <1>6, <2>3
    <3>2. replay' = [replay EXCEPT !.todo = replay.todo \ {i}, !.failed = failed, !.tree = r.tree]
      <4> HIDE DEF r, row
      <4> QED BY <1>1, <3>1 DEF IsReplay
    <3> QED BY <1>3, <2>3, <3>1, <3>2
  <2> QED BY <2>1, <2>2, <2>3
<1> QED BY <1>5, <1>6 DEF ReplayNext

\* Steps that keep the ledgers, outside of a replay.
LEMMA NoReplayStays ==
  ASSUME ReplayInv, UNCHANGED <<ledger, durable, replay>>, replay = None
  PROVE  ReplayInv'
BY DEF ReplayInv

LEMMA IssueGrants ==
  ASSUME LedgerInv, ReplayInv, NEW d, Issue(d), pending = None, replay = None, Grants(d)
  PROVE  ReplayInv'
<1> DEFINE row == Row(<<d.kind, seq + 1>>, d)
<1>1. /\ replay' = None
      /\ ledger' = ledger \/ ledger' = Append(ledger, row)
      /\ durable' = durable \/ durable' = Append(durable, row)
  BY IssueSteps
<1>2. IsRow(row) /\ row.d = d
  BY DEF Row, IsRow
<1> HIDE DEF row
<1>3. ASSUME NEW s, IsRows(s), \A i \in DOMAIN s : Grants(s[i].d), NEW i \in DOMAIN Append(s, row)
      PROVE  Grants(Append(s, row)[i].d)
  <2> DEFINE t == Append(s, row)
  <2>1. /\ Len(s) \in Nat /\ Len(t) = Len(s) + 1 /\ DOMAIN s = 1..Len(s) /\ DOMAIN t = 1..Len(t)
        /\ \A j \in DOMAIN s : t[j] = s[j]
        /\ t[Len(t)] = row
    BY <1>2, <1>3, RowAppended
  <2> HIDE DEF t
  <2>2. i \in DOMAIN t
    BY <1>3 DEF t
  <2>3. Grants(t[i].d)
    BY <1>2, <1>3, <2>1, <2>2
  <2> QED BY <2>3 DEF t
<1> QED BY <1>1, <1>3 DEF ReplayInv, LedgerInv

LEMMA NextReplayInv == ASSUME LedgerInv, ReplayInv, [Next]_vars PROVE ReplayInv'
<1>1. ASSUME NEW n \in Names, Register(n) PROVE ReplayInv'
  BY <1>1, NoReplayStays DEF Register, Free
<1>2. ASSUME NEW d \in Directives, IssueDirective(d) PROVE ReplayInv'
  BY <1>2, IssueGrants, SessionConstants DEF IssueDirective, Free, Grants
<1>3. ASSUME Answer PROVE ReplayInv'
  <2> DEFINE out == Apply(tree, catalog, stores, Pending).out
  <2>1. /\ replay = None /\ replay' = None
        /\ ledger' = WithOut(ledger, out) /\ durable' = WithOut(durable, out)
    BY <1>3 DEF Answer, ReplayInv
  <2> HIDE DEF out
  <2>2. /\ DOMAIN ledger' = DOMAIN ledger /\ \A i \in DOMAIN ledger : ledger'[i].d = ledger[i].d
    BY <2>1, OutcomeSet DEF LedgerInv
  <2>3. /\ DOMAIN durable' = DOMAIN durable /\ \A i \in DOMAIN durable : durable'[i].d = durable[i].d
    BY <2>1, OutcomeSet DEF LedgerInv
  <2> QED BY <2>1, <2>2, <2>3 DEF ReplayInv
<1>4. ASSUME NEW acted \in BOOLEAN, GiveUp(acted) PROVE ReplayInv'
  BY <1>4, NoReplayStays DEF GiveUp, ReplayInv
<1>5. ASSUME NEW a \in Artifacts, NEW v \in {None} \cup DOMAIN Accepts, Orchestrate(a, v) PROVE ReplayInv'
  BY <1>5, NoReplayStays DEF Orchestrate, Free
<1>6. ASSUME PlanStep PROVE ReplayInv'
  <2> DEFINE d == RunDirective(plan.steps[plan.next])
  <2>1. Issue(d) /\ pending = None /\ replay = None
    BY <1>6 DEF PlanStep, Free
  <2>2. Grants(d)
    BY DEF RunDirective, Grants, Opens
  <2> QED BY <2>1, <2>2, IssueGrants
<1>7. ASSUME Reopen PROVE ReplayInv'
  <2>1. replay' = None /\ ledger' = <<>> /\ durable' = durable
    BY <1>7 DEF Reopen, Fresh
  <2> QED BY <2>1 DEF ReplayInv
<1>8. ASSUME NEW from \in {"ledger", "durable"}, StartReplay(from) PROVE ReplayInv'
  <2>1. /\ pending' = None /\ UNCHANGED <<ledger, durable>>
        /\ IsReplay(replay') /\ replay'.todo = DOMAIN replay'.rows /\ replay'.tree = NewTree
        /\ replay'.rows = ledger \/ replay'.rows = durable
    BY <1>8 DEF StartReplay, Free, live, IsReplay, AllRows
  <2>2. Isolated(NewTree)
    BY DEF Isolated, NewTree, NewAgent, IsAgent, Outside
  <2> QED BY <2>1, <2>2 DEF ReplayInv
<1>9. ASSUME ReplayNext PROVE ReplayInv'
  BY <1>9, ReplayStep
<1>10. ASSUME NEW i \in DOMAIN ledger, ReplayOne(i) PROVE ReplayInv'
  BY <1>10, NoReplayStays DEF ReplayOne, Free, live
<1>11. CASE UNCHANGED vars
  BY <1>11 DEF vars, ReplayInv
<1> QED BY <1>1, <1>2, <1>3, <1>4, <1>5, <1>6, <1>7, <1>8, <1>9, <1>10, <1>11 DEF Next

\* While a replay is under way only the replay takes steps.
LEMMA ReplayingSteps ==
  ASSUME ReplayInv, Next, replay # None
  PROVE  ReplayNext
<1>1. pending = None
  BY DEF ReplayInv
<1> QED BY <1>1 DEF Next, Register, IssueDirective, Answer, GiveUp, Orchestrate, PlanStep, Reopen, StartReplay, ReplayOne, Free

\* A replay, whatever directives it re-issues and wherever it stops, leaves every store of the live
\* session as it is (CbpDriver._isolate_state_path).
THEOREM ReplaysAreIsolated == Spec => ReplayTouchesNothing
<1>1. Init => LedgerInv /\ ReplayInv
  BY InitLedgerInv DEF Init, ReplayInv
<1>2. LedgerInv /\ ReplayInv /\ [Next]_vars => (LedgerInv /\ ReplayInv)'
  BY NextLedgerInv, NextReplayInv
<1>3. ReplayInv /\ [Next]_vars => [TouchesNothing]_vars
  BY ReplayingSteps, ReplayStep DEF TouchesNothing
<1> QED BY <1>1, <1>2, <1>3, PTL DEF Spec, ReplayTouchesNothing

-----------------------------------------------------------------------------
(* The round trips (CbpDriver).                                                          *)

Called(c) == calls[c].op

\* The types, and what they need to be kept: the call under way is recorded, and no child is
\* visited twice in one attempt.
TripTypes ==
  /\ D!TypeOK /\ transport \in Transports
  /\ pc # "idle" => D!current >= 1
  /\ \A i, j \in DOMAIN todo : todo[i] = todo[j] => i = j

\* A value on its way to the caller, or reported, is the one the agent keeps.
ValuesCached ==
  /\ \A c \in 1..D!current : calls[c].outcome \in Value => results[c] = calls[c].outcome
  /\ \A i \in DOMAIN got : got[i].resp \in Value => results[got[i].cid] = got[i].resp
  /\ \A k \in D!Kid : \A i \in DOMAIN up[k] : up[k][i].resp \in Value => results[up[k][i].cid] = up[k][i].resp

\* What waits anywhere on the way to one child is in the order of the calls, and nothing is behind
\* what that child has written.
InOrder ==
  /\ \A i, j \in DOMAIN toRoot : i <= j => toRoot[i] <= toRoot[j]
  /\ \A k \in D!Kid : \A i \in DOMAIN inbox[k] :
       /\ Called(inbox[k][i]).to = k
       /\ \A j \in DOMAIN inbox[k] : i <= j => inbox[k][i] <= inbox[k][j]
       /\ \A j \in DOMAIN toRoot : inbox[k][i] <= toRoot[j]
  /\ \A p \in Path : files[p] # None =>
       /\ files[p] \in 1..D!current
       /\ \A j \in DOMAIN toRoot : files[p] <= toRoot[j]
       /\ \A k \in D!Kid : Called(files[p]).to = k => \A i \in DOMAIN inbox[k] : files[p] <= inbox[k][i]

\* Over inproc: where the copies of the current call and of the one before it are, in each phase
\* of each attempt.
Waits == {todo[i] : i \in DOMAIN todo}
Holds(s) == \E i \in DOMAIN s : s[i].cid = D!current
Sent(k) == IF k = Called(D!current).to THEN <<D!current>> ELSE <<>>
Previous(k) == inbox[k] = <<>> \/ inbox[k] = <<D!current - 1>>
Older == \A p \in Path : files[p] # None => files[p] <= D!current - 1

Idle == /\ toRoot = <<>>
        /\ \A k \in D!Kid : up[k] = <<>> /\ (inbox[k] = <<>> \/ (D!current >= 1 /\ inbox[k] = Sent(k)))
Sends == /\ toRoot = <<>>
         /\ \A k \in D!Kid : up[k] = <<>>
         /\ attempt = 1 => Older /\ \A k \in D!Kid : Previous(k)
         /\ attempt # 1 => \A k \in D!Kid : inbox[k] = Sent(k)
Children == /\ toRoot = <<D!current>>
            /\ attempt = 1 => /\ Older
                              /\ \A k \in D!Kid : IF k \in Waits THEN up[k] = <<>> /\ Previous(k) ELSE inbox[k] = <<>>
            /\ attempt # 1 => \A k \in D!Kid : IF k \in Waits \/ k # Called(D!current).to
                                               THEN inbox[k] = Sent(k)
                                               ELSE inbox[k] = <<>> /\ Holds(up[k])
Drains == /\ toRoot = <<>>
          /\ \A k \in D!Kid : inbox[k] = Sent(k) /\ (k \notin Waits => up[k] = <<>>)
          /\ attempt # 1 \/ Called(D!current).to = None =>
               Holds(got) \/ (\E k \in Waits : k = Called(D!current).to /\ Holds(up[k]))
Inproc ==
  transport = "inproc" =>
    /\ linked = D!Node /\ settled
    /\ pc \in {"idle", "send", "children", "drain"} /\ attempt \in 0..2 /\ (pc # "idle" => attempt \in 1..2)
    /\ pc # "idle" /\ attempt = 2 => Called(D!current).to # None
    /\ pc = "idle" => Idle
    /\ pc = "send" => Sends
    /\ pc = "children" => Children
    /\ pc = "drain" => Drains

TripInv == TripTypes /\ ValuesCached /\ InOrder /\ Inproc

-----------------------------------------------------------------------------
(* Types *)

\* The calls are numbered, and the bound on them is a number.
LEMMA CallNumbers ==
  ASSUME TripTypes
  PROVE  /\ D!current \in Nat /\ MaxCalls[transport] \in Nat /\ D!current <= MaxCalls[transport]
         /\ 1..D!current \subseteq D!Call /\ D!Call \subseteq Nat \ {0}
         /\ \A c \in D!Call : c \in Nat /\ c # None
         /\ \A c \in 1..D!current : calls[c] \in [op : D!Op, outcome : D!Outcome \cup {None}]
         /\ D!Call' = D!Call /\ D!Kid' = D!Kid /\ D!Response' = D!Response /\ D!Op' = D!Op /\ D!Outcome' = D!Outcome
<1>1. MaxCalls \in [Transports -> Nat] /\ None \notin Nat
  BY TripConstants DEF D!DriverConstants
<1>2. /\ transport \in Transports
      /\ calls \in Seq([op : D!Op, outcome : D!Outcome \cup {None}]) /\ Len(calls) <= MaxCalls[transport]
  BY DEF TripTypes, D!TypeOK
<1>3. Len(calls) \in Nat /\ \A c \in 1..Len(calls) : calls[c] \in [op : D!Op, outcome : D!Outcome \cup {None}]
  BY <1>2, LenProperties, ElementOfSeq
<1>4. MaxCalls[transport] \in Nat /\ \A x \in Transports : MaxCalls[x] \in Nat
  BY <1>1, <1>2
<1>5. \A c \in D!Call : \E x \in Transports : c \in 1..MaxCalls[x]
  BY DEF D!Call
<1>6. 1..MaxCalls[transport] \subseteq D!Call
  BY <1>2 DEF D!Call
<1>7. 1..Len(calls) \subseteq 1..MaxCalls[transport]
  BY <1>2, <1>3, <1>4
<1>8. D!Call \subseteq Nat \ {0}
  BY <1>4, <1>5
<1>9. D!Call' = D!Call /\ D!Kid' = D!Kid /\ D!Response' = D!Response /\ D!Op' = D!Op /\ D!Outcome' = D!Outcome
  BY DEF D!Call, D!Kid, D!Response, D!Op, D!Outcome
<1> QED BY <1>1, <1>2, <1>3, <1>4, <1>6, <1>7, <1>8, <1>9 DEF D!current

\* The first child of the list has its turn, and the others follow.
LEMMA NextTurn ==
  ASSUME TripTypes, NEW k \in D!Kid, D!Turn(k), todo' = Tail(todo)
  PROVE  /\ todo' \in Seq(D!Kid)
         /\ \A i, j \in DOMAIN todo' : todo'[i] = todo'[j] => i = j
         /\ Waits' = Waits \ {k} /\ k \in Waits
<1>1. todo \in Seq(D!Kid) /\ todo # <<>> /\ Head(todo) = k
      /\ \A i, j \in DOMAIN todo : todo[i] = todo[j] => i = j
  BY DEF TripTypes, D!TypeOK, D!Turn
<1>2. PICK n \in Nat : n = Len(todo)
  BY <1>1, LenProperties
<1>3. /\ n >= 1 /\ DOMAIN todo = 1..n /\ k = todo[1]
      /\ todo' \in Seq(D!Kid) /\ DOMAIN todo' = 1..(n - 1) /\ Len(todo') = n - 1
      /\ \A i \in 1..(n - 1) : todo'[i] = todo[i + 1]
  <2>1. n # 0
    BY <1>1, <1>2, EmptySeq
  <2>2. Tail(todo) \in Seq(D!Kid) /\ Len(Tail(todo)) = n - 1 /\ \A i \in 1..(n - 1) : Tail(todo)[i] = todo[i + 1]
    BY <1>1, <1>2, <2>1, HeadTailProperties
  <2>3. DOMAIN Tail(todo) = 1..(n - 1)
    BY <2>2, LenProperties
  <2> QED BY <1>1, <1>2, <2>1, <2>2, <2>3
<1>4. \A i, j \in DOMAIN todo' : todo'[i] = todo'[j] => i = j
  BY <1>1, <1>3
<1>5. k \in Waits
  BY <1>3 DEF Waits
<1>6. ASSUME NEW x \in Waits, x # k PROVE x \in Waits'
  <2>1. PICK i \in 1..n : x = todo[i]
    BY <1>3 DEF Waits
  <2>2. i - 1 \in 1..(n - 1) /\ (i - 1) + 1 = i
    BY <1>3, <1>6, <2>1
  <2>3. todo'[i - 1] = x
    BY <1>3, <2>1, <2>2
  <2> QED BY <1>3, <2>2, <2>3 DEF Waits
<1>7. ASSUME NEW x \in Waits' PROVE x \in Waits /\ x # k
  <2>1. PICK i \in 1..(n - 1) : x = todo'[i]
    BY <1>3 DEF Waits
  <2>2. i + 1 \in 1..n /\ x = todo[i + 1]
    BY <1>3, <2>1
  <2>3. x # k
    BY <1>1, <1>3, <2>2
  <2> QED BY <1>3, <2>2, <2>3 DEF Waits
<1> QED BY <1>3, <1>4, <1>5, <1>6, <1>7

\* Every child is to be visited.
LEMMA AllTurns ==
  /\ KidSeq \in Seq(D!Kid) /\ D!Kid = {KidSeq[i] : i \in DOMAIN KidSeq}
  /\ \A i, j \in DOMAIN KidSeq : KidSeq[i] = KidSeq[j] => i = j
BY TripConstants DEF D!DriverConstants, D!Kid

\* What the agents do with a directive keeps their types.
LEMMA HandlesTypes ==
  ASSUME TripTypes, NEW n \in D!Node, NEW c \in 1..D!current, NEW o \in D!Outcome, D!Handles(n, c, o),
         n = Root => Called(c).to = None
  PROVE  /\ results' \in [D!Call -> Value \cup {None}]
         /\ granted' = granted
         /\ n \in D!Kid => files' \in [Path -> D!Call \cup {None}]
<1>1. c \in D!Call
  BY CallNumbers
<1>2. /\ results \in [D!Call -> Value \cup {None}] /\ granted \in [D!Kid -> Path \cup {None}]
      /\ files \in [Path -> D!Call \cup {None}]
  BY DEF TripTypes, D!TypeOK
<1> QED BY <1>1, <1>2 DEF D!Handles

\* Only a child keeps a store: the root is given tasks only.
RootRunsTasks == \A c \in 1..D!current : Called(c).to = None => Called(c).what = "task"

LEMMA TripTypesKept ==
  ASSUME TripTypes, RootRunsTasks, D!Next
  PROVE  TripTypes' /\ RootRunsTasks'
<1> USE CallNumbers
<1> PICK n \in Nat : n = D!current
  OBVIOUS
<1>0. /\ transport \in {"inproc", "tcp"} /\ linked \subseteq D!Node /\ settled \in BOOLEAN
      /\ calls \in Seq([op : D!Op, outcome : D!Outcome \cup {None}]) /\ Len(calls) <= MaxCalls[transport]
      /\ pc \in {"idle", "send", "children", "drain", "raised"} /\ attempt \in 0..Attempts
      /\ todo \in Seq(D!Kid) /\ got \in Seq(D!Response) /\ toRoot \in Seq(1..n)
      /\ inbox \in [D!Kid -> Seq(1..n)] /\ up \in [D!Kid -> Seq(D!Response)]
      /\ delegated \in [D!Call -> D!Kid \cup {None}] /\ results \in [D!Call -> Value \cup {None}]
      /\ granted \in [D!Kid -> Path \cup {None}] /\ files \in [Path -> D!Call \cup {None}]
      /\ transport \in Transports /\ (pc # "idle" => n >= 1)
      /\ \A i, j \in DOMAIN todo : todo[i] = todo[j] => i = j
  BY DEF TripTypes, D!TypeOK
<1>a. Attempts \in Nat \ {0, 1}
  BY TripConstants DEF D!DriverConstants
<1>b. ASSUME NEW S, NEW s \in Seq(S), s # <<>>
      PROVE  Head(s) \in S /\ Tail(s) \in Seq(S)
  BY <1>b, HeadTailProperties
<1>c. ASSUME calls' = calls PROVE D!current' = n /\ (RootRunsTasks => RootRunsTasks')
  BY <1>c DEF D!current, RootRunsTasks, Called
<1>1. ASSUME NEW m \in D!Node, D!Link(m) PROVE TripTypes' /\ RootRunsTasks'
  BY <1>0, <1>1, <1>c DEF D!Link, D!nodes, D!wires, TripTypes, D!TypeOK
<1>2. CASE D!Settle
  BY <1>0, <1>2, <1>c DEF D!Settle, D!nodes, D!wires, TripTypes, D!TypeOK
<1>3. ASSUME NEW op \in D!Op, D!Begin(op) PROVE TripTypes' /\ RootRunsTasks'
  <2> DEFINE row == [op |-> op, outcome |-> None]
  <2>1. /\ D!current < MaxCalls[transport] /\ (op.to = None => op.what = "task")
        /\ calls' = Append(calls, row) /\ pc' = "send" /\ attempt' = 1
        /\ UNCHANGED <<transport, linked, settled, results, granted, files, toRoot, inbox, up, delegated, todo, got>>
    BY <1>3 DEF D!Begin, D!links, D!nodes, D!wires
  <2>2. row \in [op : D!Op, outcome : D!Outcome \cup {None}] /\ row.op = op
    OBVIOUS
  <2> HIDE DEF row
  <2>3. /\ calls' \in Seq([op : D!Op, outcome : D!Outcome \cup {None}]) /\ Len(calls') = n + 1
        /\ calls'[n + 1] = row /\ \A i \in 1..n : calls'[i] = calls[i]
    BY <1>0, <2>1, <2>2, AppendProperties DEF D!current
  <2>4. D!current' = n + 1 /\ n + 1 <= MaxCalls[transport] /\ n + 1 >= 1 /\ 1..n \subseteq 1..(n + 1)
    BY <2>1, <2>3 DEF D!current
  <2>5. toRoot' \in Seq(1..(n + 1)) /\ inbox' \in [D!Kid -> Seq(1..(n + 1))]
    <3>1. Seq(1..n) \subseteq Seq(1..(n + 1))
      BY <2>4, SeqMonotonic
    <3> QED BY <1>0, <2>1, <3>1
  <2>6. TripTypes'
    BY <1>0, <1>a, <2>1, <2>3, <2>4, <2>5 DEF TripTypes, D!TypeOK
  <2>7. RootRunsTasks'
    <3>1. \A i \in 1..(n + 1) : i \in 1..n \/ i = n + 1
      OBVIOUS
    <3> QED BY <2>1, <2>2, <2>3, <2>4, <3>1 DEF RootRunsTasks, Called
  <2> QED BY <2>6, <2>7
<1>4. ASSUME NEW k \in D!Kid, NEW p \in Path, D!ConfigureChild(k, p) PROVE TripTypes' /\ RootRunsTasks'
  BY <1>0, <1>4, <1>c DEF D!ConfigureChild, D!links, D!wires, TripTypes, D!TypeOK
<1>5. CASE D!Send
  <2>1. /\ pc = "send" /\ pc' = "children" /\ todo' = KidSeq /\ got' = <<>>
        /\ toRoot' = (IF Root \in linked THEN Append(toRoot, n) ELSE toRoot)
        /\ UNCHANGED <<transport, linked, settled, results, granted, files, inbox, up, delegated, calls, attempt>>
    BY <1>5 DEF D!Send, D!links, D!nodes, D!sent
  <2>2. toRoot' \in Seq(1..n)
    <3>1. n \in 1..n
      BY <1>0, <2>1
    <3> QED BY <1>0, <2>1, <3>1, AppendProperties
  <2>3. got' \in Seq(D!Response)
    BY <2>1
  <2> QED BY <1>0, <1>c, <2>1, <2>2, <2>3, AllTurns DEF TripTypes, D!TypeOK
<1>6. ASSUME NEW k \in D!Kid, NEW o \in D!Outcome, D!ChildTakes(k, o) PROVE TripTypes' /\ RootRunsTasks'
  <2>1. /\ pc = "children" /\ D!Turn(k) /\ inbox[k] # <<>> /\ D!Handles(k, Head(inbox[k]), o)
        /\ inbox' = [inbox EXCEPT ![k] = Tail(inbox[k])]
        /\ up' = [up EXCEPT ![k] = Append(up[k], [cid |-> Head(inbox[k]), resp |-> o])]
        /\ todo' = Tail(todo)
        /\ UNCHANGED <<transport, linked, settled, toRoot, delegated, calls, pc, attempt, got>>
    BY <1>6 DEF D!ChildTakes, D!links
  <2>2. Head(inbox[k]) \in 1..n /\ Tail(inbox[k]) \in Seq(1..n)
    BY <1>0, <1>b, <2>1
  <2>3. k \in D!Node /\ k # Root
    BY TripConstants DEF D!Node, D!DriverConstants
  <2>4. /\ results' \in [D!Call -> Value \cup {None}] /\ granted' = granted
        /\ files' \in [Path -> D!Call \cup {None}]
    BY <2>1, <2>2, <2>3, HandlesTypes
  <2>5. [cid |-> Head(inbox[k]), resp |-> o] \in D!Response
    BY <2>2 DEF D!Response
  <2>6. up' \in [D!Kid -> Seq(D!Response)]
    BY <1>0, <2>1, <2>5, AppendProperties
  <2>7. inbox' \in [D!Kid -> Seq(1..n)]
    BY <1>0, <2>1, <2>2
  <2>8. todo' \in Seq(D!Kid) /\ \A i, j \in DOMAIN todo' : todo'[i] = todo'[j] => i = j
    BY <2>1, NextTurn
  <2> QED BY <1>0, <1>c, <2>1, <2>4, <2>6, <2>7, <2>8 DEF TripTypes, D!TypeOK
<1>7. ASSUME NEW k \in D!Kid, D!ChildMisses(k) \/ D!DrainMisses(k) PROVE TripTypes' /\ RootRunsTasks'
  <2>1. /\ D!Turn(k) /\ todo' = Tail(todo)
        /\ UNCHANGED <<transport, linked, settled, results, granted, files, toRoot, inbox, up, delegated,
                       calls, pc, attempt, got>>
    BY <1>7 DEF D!ChildMisses, D!DrainMisses, D!links, D!nodes, D!wires
  <2>2. todo' \in Seq(D!Kid) /\ \A i, j \in DOMAIN todo' : todo'[i] = todo'[j] => i = j
    BY <2>1, NextTurn
  <2> QED BY <1>0, <1>c, <2>1, <2>2 DEF TripTypes, D!TypeOK
<1>8. ASSUME NEW o \in D!Outcome, D!RootRuns(o) PROVE TripTypes' /\ RootRunsTasks'
  <2> DEFINE r == [cid |-> Head(toRoot), resp |-> o]
  <2>1. /\ pc = "children" /\ toRoot # <<>> /\ Called(Head(toRoot)).to = None
        /\ D!Handles(Root, Head(toRoot), o) /\ got' = <<r>>
        /\ toRoot' = Tail(toRoot) /\ pc' = "drain" /\ todo' = KidSeq
        /\ UNCHANGED <<transport, linked, settled, inbox, up, delegated, calls, attempt>>
    BY <1>8 DEF D!RootRuns, D!links, D!opOf, Called
  <2>2. Head(toRoot) \in 1..n /\ Tail(toRoot) \in Seq(1..n)
    BY <1>0, <1>b, <2>1
  <2>3. /\ results' \in [D!Call -> Value \cup {None}] /\ granted' = granted
    BY <2>1, <2>2, HandlesTypes DEF D!Node
  <2>4. files' = files
    BY <2>1, <2>2 DEF RootRunsTasks, D!Handles, Called, D!opOf
  <2>5. r \in D!Response
    BY <2>2 DEF D!Response
  <2> HIDE DEF r
  <2>6. got' \in Seq(D!Response)
    BY <2>1, <2>5
  <2> QED BY <1>0, <1>c, <2>1, <2>2, <2>3, <2>4, <2>6, AllTurns DEF TripTypes, D!TypeOK
<1>9. CASE D!RootDelegates
  <2> DEFINE c == Head(toRoot)
  <2> DEFINE k == Called(c).to
  <2>1. /\ pc = "children" /\ toRoot # <<>> /\ k # None
        /\ inbox' = [inbox EXCEPT ![k] = IF k \in linked THEN Append(inbox[k], c) ELSE inbox[k]]
        /\ delegated' = [delegated EXCEPT ![c] = k]
        /\ toRoot' = Tail(toRoot) /\ pc' = "drain" /\ todo' = KidSeq
        /\ UNCHANGED <<transport, linked, settled, results, granted, files, up, calls, attempt, got>>
    BY <1>9 DEF D!RootDelegates, D!links, D!nodes, D!opOf, D!sent, Called
  <2>2. c \in 1..n /\ Tail(toRoot) \in Seq(1..n)
    BY <1>0, <1>b, <2>1
  <2>3. k \in D!Kid
    BY <2>1, <2>2 DEF Called, D!Op
  <2> HIDE DEF c, k
  <2>4. inbox' \in [D!Kid -> Seq(1..n)]
    BY <1>0, <2>1, <2>2, <2>3, AppendProperties
  <2>5. delegated' \in [D!Call -> D!Kid \cup {None}]
    BY <1>0, <2>1, <2>3
  <2> QED BY <1>0, <1>c, <2>1, <2>2, <2>4, <2>5, AllTurns DEF TripTypes, D!TypeOK
<1>10. CASE D!RootMisses
  BY <1>0, <1>10, <1>c, AllTurns DEF D!RootMisses, D!links, D!nodes, D!wires, TripTypes, D!TypeOK
<1>11. ASSUME NEW k \in D!Kid, D!DrainChild(k) PROVE TripTypes' /\ RootRunsTasks'
  <2>1. /\ D!Turn(k) /\ got' = got \o up[k] /\ todo' = Tail(todo)
        /\ up' = [up EXCEPT ![k] = <<>>]
        /\ UNCHANGED <<transport, linked, settled, results, granted, files, toRoot, inbox, calls, pc, attempt>>
    BY <1>11 DEF D!DrainChild, D!links, D!nodes
  <2>2. todo' \in Seq(D!Kid) /\ \A i, j \in DOMAIN todo' : todo'[i] = todo'[j] => i = j
    BY <2>1, NextTurn
  <2>3. got' \in Seq(D!Response)
    BY <1>0, <2>1, ConcatProperties
  <2>4. up' \in [D!Kid -> Seq(D!Response)]
    <3>1. <<>> \in Seq(D!Response)
      OBVIOUS
    <3> QED BY <1>0, <2>1, <3>1
  <2>5. delegated' \in [D!Call -> D!Kid \cup {None}]
    BY <1>0, <1>11 DEF D!DrainChild
  <2> QED BY <1>0, <1>c, <2>1, <2>2, <2>3, <2>4, <2>5 DEF TripTypes, D!TypeOK
<1>12. CASE D!Match
  <2>1. PICK i \in D!Matches : calls' = [calls EXCEPT ![D!current].outcome = got[i].resp]
    BY <1>12 DEF D!Match
  <2>2. pc = "drain" /\ pc' = "idle"
        /\ UNCHANGED <<transport, linked, settled, results, granted, files, toRoot, inbox, up, delegated,
                       attempt, todo, got>>
    BY <1>12 DEF D!Match, D!links, D!nodes, D!wires
  <2>3. got[i].resp \in D!Outcome
    <3>1. i \in DOMAIN got
      BY DEF D!Matches
    <3>2. got[i] \in D!Response
      BY <1>0, <3>1
    <3> QED BY <3>2 DEF D!Response
  <2>4. n \in 1..n /\ DOMAIN calls = 1..n /\ calls[n] \in [op : D!Op, outcome : D!Outcome \cup {None}]
    BY <1>0, <2>2 DEF D!current
  <2> DEFINE row == [calls[n] EXCEPT !.outcome = got[i].resp]
  <2>5. row \in [op : D!Op, outcome : D!Outcome \cup {None}] /\ row.op = calls[n].op
    BY <2>3, <2>4
  <2>6. calls' = [calls EXCEPT ![n] = row]
    BY <2>1
  <2> HIDE DEF row
  <2>7. /\ calls' \in Seq([op : D!Op, outcome : D!Outcome \cup {None}]) /\ Len(calls') = n
        /\ \A c \in 1..n : calls'[c].op = calls[c].op
    BY <1>0, <2>4, <2>5, <2>6, ExceptSeq DEF D!current
  <2>8. D!current' = n /\ n <= MaxCalls[transport]
    BY <2>7 DEF D!current
  <2>9. TripTypes'
    BY <1>0, <2>2, <2>7, <2>8 DEF TripTypes, D!TypeOK
  <2> QED BY <2>7, <2>8, <2>9 DEF RootRunsTasks, Called
<1>13. CASE D!Retry
  <2>1. attempt' = attempt + 1 /\ attempt < Attempts /\ pc = "drain" /\ pc' = "send"
        /\ UNCHANGED <<transport, linked, settled, results, granted, files, toRoot, inbox, up, delegated,
                       calls, todo, got>>
    BY <1>13 DEF D!Retry, D!links, D!nodes, D!wires
  <2>2. attempt' \in 0..Attempts
    BY <1>0, <1>a, <2>1
  <2> QED BY <1>0, <1>c, <2>1, <2>2 DEF TripTypes, D!TypeOK
<1>14. CASE D!GiveUp \/ D!Caught
  <2>1. pc # "idle" /\ pc' \in {"idle", "raised"}
        /\ UNCHANGED <<transport, linked, settled, results, granted, files, toRoot, inbox, up, delegated,
                       calls, attempt, todo, got>>
    BY <1>14 DEF D!GiveUp, D!Caught, D!links, D!nodes, D!wires
  <2> QED BY <1>0, <1>c, <2>1 DEF TripTypes, D!TypeOK
<1> QED
  BY <1>1, <1>2, <1>3, <1>4, <1>5, <1>6, <1>7, <1>8, <1>9, <1>10, <1>11, <1>12, <1>13, <1>14 DEF D!Next

-----------------------------------------------------------------------------
(* A reported value is the one the agent keeps *)

\* A value that is kept stays, and a value that is answered is kept.
LEMMA HandlesCache ==
  ASSUME TripTypes, NEW n \in D!Node, NEW c \in 1..D!current, NEW o \in D!Outcome, D!Handles(n, c, o)
  PROVE  /\ \A x \in D!Call : results[x] \in Value => results'[x] = results[x]
         /\ o \in Value => results'[c] = o
<1>1. None \notin Value /\ "ok" \notin Value /\ "error" \notin Value
  BY TripConstants DEF D!DriverConstants, D!Outcome
<1>2. results \in [D!Call -> Value \cup {None}] /\ c \in D!Call
  BY CallNumbers DEF TripTypes, D!TypeOK
<1> QED BY <1>1, <1>2 DEF D!Handles

\* The responses in a sequence are of calls that were made.
LEMMA ResponsesAre ==
  ASSUME NEW s \in Seq(D!Response)
  PROVE  \A i \in DOMAIN s : s[i].cid \in D!Call /\ s[i].resp \in D!Outcome
<1>1. \A i \in DOMAIN s : s[i] \in D!Response
  OBVIOUS
<1> QED BY <1>1 DEF D!Response

LEMMA ValuesCachedKept ==
  ASSUME TripTypes, RootRunsTasks, ValuesCached, D!Next
  PROVE  ValuesCached'
<1> USE CallNumbers
<1> PICK n \in Nat : n = D!current
  OBVIOUS
<1>0. /\ calls \in Seq([op : D!Op, outcome : D!Outcome \cup {None}]) /\ DOMAIN calls = 1..n
      /\ got \in Seq(D!Response) /\ up \in [D!Kid -> Seq(D!Response)]
      /\ results \in [D!Call -> Value \cup {None}] /\ Len(calls) = n
      /\ toRoot \in Seq(1..n) /\ inbox \in [D!Kid -> Seq(1..n)]
  BY DEF TripTypes, D!TypeOK, D!current
<1>1. /\ \A c \in 1..n : calls[c].outcome \in Value => results[c] = calls[c].outcome
      /\ \A i \in DOMAIN got : got[i].resp \in Value => results[got[i].cid] = got[i].resp
      /\ \A k \in D!Kid : \A i \in DOMAIN up[k] : up[k][i].resp \in Value => results[up[k][i].cid] = up[k][i].resp
  BY DEF ValuesCached
<1>2. ASSUME calls' = calls PROVE D!current' = n
  BY <1>2 DEF D!current
<1>3. CASE UNCHANGED <<calls, results, got, up>>
  BY <1>1, <1>2, <1>3 DEF ValuesCached
<1>4. CASE D!Settle \/ D!RootDelegates \/ D!RootMisses \/ D!Retry \/ D!GiveUp \/ D!Caught
  <2>1. UNCHANGED <<calls, results, got, up>>
    BY <1>4 DEF D!Settle, D!RootDelegates, D!RootMisses, D!Retry, D!GiveUp, D!Caught, D!nodes, D!wires
  <2> QED BY <1>3, <2>1
<1>5. CASE \/ \E m \in D!Node : D!Link(m)
           \/ \E k \in D!Kid, p \in Path : D!ConfigureChild(k, p)
           \/ \E k \in D!Kid : D!ChildMisses(k) \/ D!DrainMisses(k)
  <2>1. UNCHANGED <<calls, results, got, up>>
    BY <1>5 DEF D!Link, D!ConfigureChild, D!ChildMisses, D!DrainMisses, D!nodes, D!wires
  <2> QED BY <1>3, <2>1
<1>6. ASSUME NEW op \in D!Op, D!Begin(op) PROVE ValuesCached'
  <2> DEFINE row == [op |-> op, outcome |-> None]
  <2>1. calls' = Append(calls, row) /\ UNCHANGED <<results, got, up>>
    BY <1>6 DEF D!Begin, D!nodes, D!wires
  <2>2. row \in [op : D!Op, outcome : D!Outcome \cup {None}] /\ row.outcome = None
    OBVIOUS
  <2> HIDE DEF row
  <2>3. Len(calls') = n + 1 /\ calls'[n + 1] = row /\ \A i \in 1..n : calls'[i] = calls[i]
    BY <1>0, <2>1, <2>2, AppendProperties
  <2>4. None \notin Value
    BY TripConstants DEF D!DriverConstants, D!Outcome
  <2>5. D!current' = n + 1 /\ \A i \in 1..(n + 1) : i \in 1..n \/ i = n + 1
    BY <2>3 DEF D!current
  <2> QED BY <1>1, <2>1, <2>2, <2>3, <2>4, <2>5 DEF ValuesCached
<1>7. CASE D!Send
  <2>1. got' = <<>> /\ UNCHANGED <<calls, results, up>>
    BY <1>7 DEF D!Send, D!nodes
  <2> QED BY <1>1, <1>2, <2>1 DEF ValuesCached
<1>8. ASSUME NEW k \in D!Kid, NEW o \in D!Outcome, D!ChildTakes(k, o) PROVE ValuesCached'
  <2> DEFINE c == Head(inbox[k])
  <2> DEFINE r == [cid |-> c, resp |-> o]
  <2>1. inbox[k] # <<>> /\ D!Handles(k, c, o) /\ up' = [up EXCEPT ![k] = Append(up[k], r)] /\ UNCHANGED <<calls, got>>
    BY <1>8 DEF D!ChildTakes
  <2>2. c \in 1..n /\ k \in D!Node
    BY <1>0, <2>1, HeadTailProperties DEF D!Node
  <2>3. r \in D!Response /\ r.cid = c /\ r.resp = o
    BY <2>2 DEF D!Response
  <2>4. /\ \A x \in D!Call : results[x] \in Value => results'[x] = results[x]
        /\ o \in Value => results'[c] = o
    BY <2>1, <2>2, HandlesCache
  <2> HIDE DEF c, r
  <2>5. \A x \in 1..n : calls[x].outcome \in Value => results'[x] = calls[x].outcome
    BY <1>1, <2>4
  <2>6. \A i \in DOMAIN got : got[i].resp \in Value => results'[got[i].cid] = got[i].resp
    BY <1>0, <1>1, <2>4, ResponsesAre
  <2>7. ASSUME NEW j \in D!Kid, NEW i \in DOMAIN up'[j], up'[j][i].resp \in Value
        PROVE  results'[up'[j][i].cid] = up'[j][i].resp
    <3>1. ASSUME i \in DOMAIN up[j], up'[j][i] = up[j][i] PROVE results'[up'[j][i].cid] = up'[j][i].resp
      <4>1. up[j][i].cid \in D!Call
        BY <1>0, <3>1, ResponsesAre
      <4> QED BY <1>1, <2>4, <2>7, <3>1, <4>1
    <3>2. CASE j # k
      BY <1>0, <2>1, <2>7, <3>1, <3>2
    <3>3. CASE j = k
      <4> PICK m \in Nat : m = Len(up[k])
        BY <1>0, LenProperties
      <4>1. up'[k] = Append(up[k], r)
        BY <1>0, <2>1
      <4>2. /\ DOMAIN up'[k] = 1..(m + 1) /\ DOMAIN up[k] = 1..m /\ up'[k][m + 1] = r
            /\ \A x \in 1..m : up'[k][x] = up[k][x]
        BY <1>0, <2>3, <4>1, AppendProperties
      <4>3. CASE i = m + 1
        BY <2>3, <2>4, <2>7, <3>3, <4>2, <4>3
      <4>4. CASE i # m + 1
        BY <2>7, <3>1, <3>3, <4>2, <4>4
      <4> QED BY <4>3, <4>4
    <3> QED BY <3>2, <3>3
  <2> QED BY <1>2, <2>1, <2>5, <2>6, <2>7 DEF ValuesCached
<1>9. ASSUME NEW o \in D!Outcome, D!RootRuns(o) PROVE ValuesCached'
  <2> DEFINE c == Head(toRoot)
  <2> DEFINE r == [cid |-> c, resp |-> o]
  <2>1. toRoot # <<>> /\ D!Handles(Root, c, o) /\ got' = <<r>> /\ UNCHANGED <<calls, up>>
    BY <1>9 DEF D!RootRuns
  <2>2. c \in 1..n /\ Root \in D!Node
    BY <1>0, <2>1, HeadTailProperties DEF D!Node
  <2>3. r.cid = c /\ r.resp = o
    OBVIOUS
  <2>4. /\ \A x \in D!Call : results[x] \in Value => results'[x] = results[x]
        /\ o \in Value => results'[c] = o
    BY <2>1, <2>2, HandlesCache
  <2> HIDE DEF c, r
  <2>5. \A x \in 1..n : calls[x].outcome \in Value => results'[x] = calls[x].outcome
    BY <1>1, <2>4
  <2>6. \A i \in DOMAIN got' : got'[i] = r
    BY <2>1
  <2>7. ASSUME NEW j \in D!Kid, NEW i \in DOMAIN up[j], up[j][i].resp \in Value
        PROVE  results'[up[j][i].cid] = up[j][i].resp
    BY <1>0, <1>1, <2>4, <2>7, ResponsesAre
  <2> QED BY <1>2, <2>1, <2>3, <2>4, <2>5, <2>6, <2>7 DEF ValuesCached
<1>10. ASSUME NEW k \in D!Kid, D!DrainChild(k) PROVE ValuesCached'
  <2>1. got' = got \o up[k] /\ up' = [up EXCEPT ![k] = <<>>] /\ UNCHANGED <<calls, results>>
    BY <1>10 DEF D!DrainChild, D!nodes
  <2>2. \A i \in DOMAIN got' : (i \in DOMAIN got /\ got'[i] = got[i]) \/ \E j \in DOMAIN up[k] : got'[i] = up[k][j]
    <3> PICK a \in Nat, b \in Nat : a = Len(got) /\ b = Len(up[k])
      BY <1>0, LenProperties
    <3>1. /\ DOMAIN got = 1..a /\ DOMAIN up[k] = 1..b /\ DOMAIN got' = 1..(a + b)
          /\ \A i \in 1..(a + b) : got'[i] = IF i <= a THEN got[i] ELSE up[k][i - a]
      BY <1>0, <2>1, ConcatProperties
    <3> SUFFICES ASSUME NEW i \in 1..(a + b)
                 PROVE  (i \in DOMAIN got /\ got'[i] = got[i]) \/ \E j \in DOMAIN up[k] : got'[i] = up[k][j]
      BY <3>1
    <3>2. CASE i <= a
      BY <3>1, <3>2
    <3>3. CASE ~(i <= a)
      <4>1. i - a \in 1..b
        BY <3>3
      <4> QED BY <3>1, <3>3, <4>1
    <3> QED BY <3>2, <3>3
  <2>3. \A i \in DOMAIN got' : got'[i].resp \in Value => results[got'[i].cid] = got'[i].resp
    BY <1>1, <2>2
  <2>4. \A j \in D!Kid : up'[j] = up[j] \/ up'[j] = <<>>
    BY <1>0, <2>1
  <2>5. \A j \in D!Kid : \A i \in DOMAIN up'[j] : up'[j][i].resp \in Value => results[up'[j][i].cid] = up'[j][i].resp
    BY <1>1, <2>4
  <2> QED BY <1>1, <1>2, <2>1, <2>3, <2>5 DEF ValuesCached
<1>11. CASE D!Match
  <2>1. PICK i \in D!Matches : calls' = [calls EXCEPT ![n].outcome = got[i].resp]
    BY <1>11 DEF D!Match
  <2>2. UNCHANGED <<results, got, up>>
    BY <1>11 DEF D!Match, D!nodes, D!wires
  <2>3. i \in DOMAIN got /\ got[i].cid = n
    BY DEF D!Matches
  <2>4. Len(calls') = n
    BY <1>0, <2>1
  <2>5. \A c \in 1..n : calls'[c].outcome = IF c = n THEN got[i].resp ELSE calls[c].outcome
    <3>1. \A c \in 1..n : calls[c] \in [op : D!Op, outcome : D!Outcome \cup {None}]
      OBVIOUS
    <3> QED BY <1>0, <2>1, <3>1
  <2>6. D!current' = n
    BY <2>4 DEF D!current
  <2> QED BY <1>1, <2>2, <2>3, <2>5, <2>6 DEF ValuesCached
<1> QED
  BY <1>4, <1>5, <1>6, <1>7, <1>8, <1>9, <1>10, <1>11 DEF D!Next

-----------------------------------------------------------------------------
(* The order of what is on its way *)

\* What is left of a queue after its first element, and what is in it with one more.
LEMMA QueueTail ==
  ASSUME NEW S, NEW s \in Seq(S), s # <<>>
  PROVE  /\ 1 \in DOMAIN s /\ Head(s) = s[1]
         /\ \A i \in DOMAIN Tail(s) : i \in Nat \ {0} /\ i + 1 \in DOMAIN s /\ Tail(s)[i] = s[i + 1]
<1> PICK n \in Nat : n = Len(s)
  BY LenProperties
<1>1. n # 0 /\ DOMAIN s = 1..n
  BY EmptySeq
<1>2. /\ Head(s) = s[1] /\ Tail(s) \in Seq(S) /\ Len(Tail(s)) = n - 1
      /\ \A i \in 1..(n - 1) : Tail(s)[i] = s[i + 1]
  BY <1>1, HeadTailProperties
<1>3. DOMAIN Tail(s) = 1..(n - 1)
  BY <1>2, LenProperties
<1>4. \A i \in 1..(n - 1) : i \in Nat \ {0} /\ i + 1 \in 1..n
  BY <1>1
<1>5. 1 \in 1..n
  BY <1>1
<1> QED BY <1>1, <1>2, <1>3, <1>4, <1>5

Longer(t, s, e) ==
  \E m \in Nat \ {0} :
    /\ DOMAIN t = 1..m /\ t[m] = e
    /\ \A i \in 1..m : i # m => i \in DOMAIN s /\ t[i] = s[i]
    /\ \A i \in DOMAIN s : i \in 1..m /\ i < m

LEMMA QueueAppend ==
  ASSUME NEW S, NEW s \in Seq(S), NEW e \in S, NEW t, t = Append(s, e)
  PROVE  Longer(t, s, e)
<1> PICK n \in Nat : n = Len(s)
  BY LenProperties
<1>1. /\ DOMAIN s = 1..n /\ t \in Seq(S) /\ Len(t) = n + 1 /\ t[n + 1] = e
      /\ \A i \in 1..n : t[i] = s[i]
  BY AppendProperties, LenProperties
<1>2. DOMAIN t = 1..(n + 1)
  BY <1>1, LenProperties
<1>3. \A i \in 1..(n + 1) : i # n + 1 => i \in 1..n
  OBVIOUS
<1>4. \A i \in 1..n : i \in 1..(n + 1) /\ i < n + 1
  OBVIOUS
<1> QED BY <1>1, <1>2, <1>3, <1>4 DEF Longer

LEMMA InOrderKept ==
  ASSUME TripTypes, RootRunsTasks, InOrder, D!Next
  PROVE  InOrder'
<1> USE CallNumbers
<1> PICK n \in Nat : n = D!current
  OBVIOUS
<1>0. /\ calls \in Seq([op : D!Op, outcome : D!Outcome \cup {None}]) /\ Len(calls) = n
      /\ toRoot \in Seq(1..n) /\ inbox \in [D!Kid -> Seq(1..n)]
      /\ files \in [Path -> D!Call \cup {None}] /\ granted \in [D!Kid -> Path \cup {None}]
      /\ DOMAIN calls = 1..n
  BY DEF TripTypes, D!TypeOK, D!current
<1>1. \A i, j \in DOMAIN toRoot : i <= j => toRoot[i] <= toRoot[j]
  BY DEF InOrder
<1>2. \A k \in D!Kid : \A i \in DOMAIN inbox[k] :
        /\ Called(inbox[k][i]).to = k
        /\ \A j \in DOMAIN inbox[k] : i <= j => inbox[k][i] <= inbox[k][j]
        /\ \A j \in DOMAIN toRoot : inbox[k][i] <= toRoot[j]
  BY DEF InOrder
<1>3. \A p \in Path : files[p] # None =>
        /\ files[p] \in 1..n
        /\ \A j \in DOMAIN toRoot : files[p] <= toRoot[j]
        /\ \A k \in D!Kid : Called(files[p]).to = k => \A i \in DOMAIN inbox[k] : files[p] <= inbox[k][i]
  BY DEF InOrder
<1>4. \A k \in D!Kid : \A i \in DOMAIN inbox[k] : inbox[k][i] \in 1..n
  BY <1>0, ElementOfSeq
<1>5. \A j \in DOMAIN toRoot : toRoot[j] \in 1..n
  BY <1>0, ElementOfSeq
<1>6. CASE UNCHANGED <<calls, toRoot, inbox, files>>
  BY <1>6 DEF InOrder, D!current, Called
<1>7. CASE D!Settle \/ D!RootMisses \/ D!Retry \/ D!GiveUp \/ D!Caught
  <2>1. UNCHANGED <<calls, toRoot, inbox, files>>
    BY <1>7 DEF D!Settle, D!RootMisses, D!Retry, D!GiveUp, D!Caught, D!nodes, D!wires
  <2> QED BY <1>6, <2>1
<1>8. CASE \/ \E m \in D!Node : D!Link(m)
           \/ \E k \in D!Kid, p \in Path : D!ConfigureChild(k, p)
           \/ \E k \in D!Kid : D!ChildMisses(k) \/ D!DrainMisses(k) \/ D!DrainChild(k)
  <2>1. UNCHANGED <<calls, toRoot, inbox, files>>
    BY <1>8 DEF D!Link, D!ConfigureChild, D!ChildMisses, D!DrainMisses, D!DrainChild, D!nodes, D!wires
  <2> QED BY <1>6, <2>1
<1>9. ASSUME \A c \in 1..n : Called(c)' = Called(c), D!current' >= n, D!current' \in Nat,
             UNCHANGED <<toRoot, inbox, files>>
      PROVE  InOrder'
  <2>1. 1..n \subseteq 1..D!current'
    BY <1>9
  <2> QED BY <1>1, <1>2, <1>3, <1>4, <1>9, <2>1 DEF InOrder
<1>10. ASSUME NEW op \in D!Op, D!Begin(op) PROVE InOrder'
  <2> DEFINE row == [op |-> op, outcome |-> None]
  <2>1. calls' = Append(calls, row) /\ UNCHANGED <<toRoot, inbox, files>>
    BY <1>10 DEF D!Begin, D!nodes, D!wires
  <2>2. row \in [op : D!Op, outcome : D!Outcome \cup {None}]
    OBVIOUS
  <2> HIDE DEF row
  <2>3. Len(calls') = n + 1 /\ \A i \in 1..n : calls'[i] = calls[i]
    BY <1>0, <2>1, <2>2, AppendProperties
  <2> QED BY <1>9, <2>1, <2>3 DEF D!current, Called
<1>11. CASE D!Match
  <2>1. PICK i \in D!Matches : calls' = [calls EXCEPT ![n].outcome = got[i].resp]
    BY <1>11 DEF D!Match
  <2>2. UNCHANGED <<toRoot, inbox, files>>
    BY <1>11 DEF D!Match, D!nodes, D!wires
  <2>3. Len(calls') = n
    BY <1>0, <2>1
  <2>4. \A c \in 1..n : calls'[c].op = calls[c].op
    <3>1. \A c \in 1..n : calls[c] \in [op : D!Op, outcome : D!Outcome \cup {None}]
      OBVIOUS
    <3> QED BY <1>0, <2>1, <3>1
  <2> QED BY <1>9, <2>2, <2>3, <2>4 DEF D!current, Called
<1>12. ASSUME calls' = calls PROVE D!current' = n /\ \A c : Called(c)' = Called(c)
  BY <1>12 DEF D!current, Called
<1>13. CASE D!Send
  <2>1. /\ pc = "send" /\ toRoot' = (IF Root \in linked THEN Append(toRoot, n) ELSE toRoot)
        /\ UNCHANGED <<calls, inbox, files>>
    BY <1>13 DEF D!Send, D!nodes, D!sent
  <2>2. CASE Root \notin linked
    BY <1>6, <2>1, <2>2
  <2>3. CASE Root \in linked
    <3>1. n >= 1 /\ n \in 1..n
      BY <2>1 DEF TripTypes
    <3>2. PICK m \in Nat :
            /\ DOMAIN toRoot' = 1..m /\ toRoot'[m] = n
            /\ \A i \in 1..m : i # m => i \in DOMAIN toRoot /\ toRoot'[i] = toRoot[i]
            /\ \A i \in DOMAIN toRoot : i \in 1..m /\ i < m
      <4>1. toRoot \in Seq(1..n) /\ toRoot' = Append(toRoot, n)
        BY <1>0, <2>1, <2>3
      <4>2. Longer(toRoot', toRoot, n)
        BY <3>1, <4>1, QueueAppend
      <4> QED BY <4>2 DEF Longer
    <3>3. \A j \in DOMAIN toRoot' : toRoot'[j] = n \/ (j \in DOMAIN toRoot /\ toRoot'[j] = toRoot[j])
      BY <3>2
    <3>4. ASSUME NEW x \in 1..n, \A j \in DOMAIN toRoot : x <= toRoot[j]
          PROVE  \A j \in DOMAIN toRoot' : x <= toRoot'[j]
      BY <3>3, <3>4
    <3>5. ASSUME NEW i \in DOMAIN toRoot', NEW j \in DOMAIN toRoot', i <= j PROVE toRoot'[i] <= toRoot'[j]
      <4>1. CASE j = m
        BY <1>5, <3>1, <3>2, <3>3, <3>5, <4>1
      <4>2. CASE j # m
        <5>1. i # m /\ i \in 1..m /\ j \in 1..m
          BY <3>2, <3>5, <4>2
        <5> QED BY <1>1, <3>2, <3>5, <4>2, <5>1
      <4> QED BY <4>1, <4>2
    <3>6. \A k \in D!Kid : \A i \in DOMAIN inbox[k] : \A j \in DOMAIN toRoot' : inbox[k][i] <= toRoot'[j]
      BY <1>2, <1>4, <3>4
    <3>7. \A p \in Path : files[p] # None => \A j \in DOMAIN toRoot' : files[p] <= toRoot'[j]
      BY <1>3, <3>4
    <3> QED BY <1>2, <1>3, <1>12, <2>1, <3>5, <3>6, <3>7 DEF InOrder, Called
  <2> QED BY <2>2, <2>3
<1>14. ASSUME NEW o \in D!Outcome, D!RootRuns(o) PROVE InOrder'
  <2>1. /\ toRoot # <<>> /\ Called(Head(toRoot)).to = None /\ D!Handles(Root, Head(toRoot), o)
        /\ toRoot' = Tail(toRoot) /\ UNCHANGED <<calls, inbox>>
    BY <1>14 DEF D!RootRuns, D!opOf, Called
  <2>2. Head(toRoot) \in 1..n
    BY <1>0, <2>1, HeadTailProperties
  <2>3. files' = files
    BY <2>1, <2>2 DEF RootRunsTasks, D!Handles, Called, D!opOf
  <2>4. \A j \in DOMAIN toRoot' : j \in Nat \ {0} /\ j + 1 \in DOMAIN toRoot /\ toRoot'[j] = toRoot[j + 1]
    BY <1>0, <2>1, QueueTail
  <2>5. \A i, j \in DOMAIN toRoot' : i <= j => toRoot'[i] <= toRoot'[j]
    <3> SUFFICES ASSUME NEW i \in DOMAIN toRoot', NEW j \in DOMAIN toRoot', i <= j PROVE toRoot'[i] <= toRoot'[j]
      OBVIOUS
    <3>1. i + 1 <= j + 1
      BY <2>4
    <3> QED BY <1>1, <2>4, <3>1
  <2>6. \A x : (\A j \in DOMAIN toRoot : x <= toRoot[j]) => \A j \in DOMAIN toRoot' : x <= toRoot'[j]
    BY <2>4
  <2>7. \A k \in D!Kid : \A i \in DOMAIN inbox[k] : \A j \in DOMAIN toRoot' : inbox[k][i] <= toRoot'[j]
    BY <1>2, <2>6
  <2>8. \A p \in Path : files[p] # None => \A j \in DOMAIN toRoot' : files[p] <= toRoot'[j]
    BY <1>3, <2>6
  <2> QED BY <1>2, <1>3, <1>12, <2>1, <2>3, <2>5, <2>7, <2>8 DEF InOrder, Called
<1>15. CASE D!RootDelegates
  <2> DEFINE c == Head(toRoot)
  <2> DEFINE k == Called(c).to
  <2>1. /\ toRoot # <<>> /\ k # None
        /\ inbox' = [inbox EXCEPT ![k] = IF k \in linked THEN Append(inbox[k], c) ELSE inbox[k]]
        /\ toRoot' = Tail(toRoot) /\ UNCHANGED <<files, calls>>
    BY <1>15 DEF D!RootDelegates, D!nodes, D!opOf, D!sent, Called
  <2>2. c \in 1..n /\ 1 \in DOMAIN toRoot /\ c = toRoot[1]
    BY <1>0, <1>5, <2>1, QueueTail
  <2>3. k \in D!Kid
    BY <2>1, <2>2 DEF Called, D!Op
  <2>4. Called(c).to = k
    OBVIOUS
  <2> HIDE DEF c, k
  <2>5. \A j \in DOMAIN toRoot' : j \in Nat \ {0} /\ j + 1 \in DOMAIN toRoot /\ toRoot'[j] = toRoot[j + 1]
    BY <1>0, <2>1, QueueTail
  <2>6. \A i, j \in DOMAIN toRoot' : i <= j => toRoot'[i] <= toRoot'[j]
    <3> SUFFICES ASSUME NEW i \in DOMAIN toRoot', NEW j \in DOMAIN toRoot', i <= j PROVE toRoot'[i] <= toRoot'[j]
      OBVIOUS
    <3>1. i + 1 <= j + 1
      BY <2>5
    <3> QED BY <1>1, <2>5, <3>1
  <2>7. \A x : (\A j \in DOMAIN toRoot : x <= toRoot[j]) => \A j \in DOMAIN toRoot' : x <= toRoot'[j]
    BY <2>5
  <2>8. \A j \in DOMAIN toRoot' : c <= toRoot'[j]
    <3> SUFFICES ASSUME NEW j \in DOMAIN toRoot' PROVE c <= toRoot'[j]
      OBVIOUS
    <3>1. 1 <= j + 1
      BY <2>5
    <3> QED BY <1>1, <2>2, <2>5, <3>1
  <2>9. \A x \in D!Kid : x # k \/ k \notin linked => inbox'[x] = inbox[x]
    BY <1>0, <2>1, <2>3
  <2>10. ASSUME k \in linked
         PROVE  Longer(inbox'[k], inbox[k], c)
    <3>1. inbox'[k] = Append(inbox[k], c) /\ inbox[k] \in Seq(1..n)
      BY <1>0, <2>1, <2>3, <2>10
    <3> QED BY <2>2, <3>1, QueueAppend
  <2>11. ASSUME NEW x \in D!Kid, NEW i \in DOMAIN inbox'[x]
         PROVE  /\ Called(inbox'[x][i]).to = x
                /\ \A j \in DOMAIN inbox'[x] : i <= j => inbox'[x][i] <= inbox'[x][j]
                /\ \A j \in DOMAIN toRoot' : inbox'[x][i] <= toRoot'[j]
                /\ \A p \in Path : files[p] # None /\ Called(files[p]).to = x => files[p] <= inbox'[x][i]
    <3>1. CASE x # k \/ k \notin linked
      BY <1>2, <1>3, <2>7, <2>9, <2>11, <3>1
    <3>2. CASE x = k /\ k \in linked
      <4>1. PICK m \in Nat :
              /\ DOMAIN inbox'[k] = 1..m /\ inbox'[k][m] = c
              /\ \A l \in 1..m : l # m => l \in DOMAIN inbox[k] /\ inbox'[k][l] = inbox[k][l]
              /\ \A l \in DOMAIN inbox[k] : l \in 1..m /\ l < m
        BY <2>10, <3>2 DEF Longer
      <4>2. \A l \in DOMAIN inbox[k] : inbox[k][l] <= c
        BY <1>2, <2>2, <2>3
      <4>3. CASE i = m
        <5>1. \A j \in DOMAIN inbox'[k] : i <= j => j = m
          BY <4>1, <4>3
        <5>2. c <= c
          BY <2>2
        <5>3. \A p \in Path : files[p] # None => files[p] <= c
          BY <1>3, <2>2
        <5> QED BY <2>4, <2>8, <3>2, <4>1, <4>3, <5>1, <5>2, <5>3
      <4>4. CASE i # m
        <5>1. i \in DOMAIN inbox[k] /\ inbox'[k][i] = inbox[k][i]
          BY <2>11, <3>2, <4>1, <4>4
        <5>2. ASSUME NEW j \in DOMAIN inbox'[k], i <= j PROVE inbox'[k][i] <= inbox'[k][j]
          <6>1. CASE j = m
            BY <4>1, <4>2, <5>1, <6>1
          <6>2. CASE j # m
            BY <1>2, <2>3, <4>1, <5>1, <5>2, <6>2
          <6> QED BY <6>1, <6>2
        <5> QED BY <1>2, <1>3, <2>3, <2>7, <3>2, <5>1, <5>2
      <4> QED BY <4>3, <4>4
    <3> QED BY <3>1, <3>2
  <2>12. \A p \in Path : files[p] # None => files[p] \in 1..n /\ \A j \in DOMAIN toRoot' : files[p] <= toRoot'[j]
    BY <1>3, <2>7
  <2> QED BY <1>12, <2>1, <2>6, <2>11, <2>12 DEF InOrder
<1>16. ASSUME NEW k \in D!Kid, NEW o \in D!Outcome, D!ChildTakes(k, o) PROVE InOrder'
  <2> DEFINE c == Head(inbox[k])
  <2>1. /\ inbox[k] # <<>> /\ D!Handles(k, c, o) /\ inbox' = [inbox EXCEPT ![k] = Tail(inbox[k])]
        /\ UNCHANGED <<calls, toRoot>>
    BY <1>16 DEF D!ChildTakes
  <2>2. /\ 1 \in DOMAIN inbox[k] /\ c = inbox[k][1] /\ c \in 1..n
        /\ \A i \in DOMAIN Tail(inbox[k]) :
             i \in Nat \ {0} /\ i + 1 \in DOMAIN inbox[k] /\ Tail(inbox[k])[i] = inbox[k][i + 1]
    BY <1>0, <1>4, <2>1, QueueTail
  <2>3. \A p \in Path : files'[p] = files[p] \/ (files'[p] = c /\ granted[k] = p)
    BY <1>0, <2>1 DEF D!Handles
  <2> HIDE DEF c
  <2>4. Called(c).to = k /\ \A j \in DOMAIN toRoot : c <= toRoot[j]
    BY <1>2, <2>2
  <2>5. ASSUME NEW x \in D!Kid, NEW i \in DOMAIN inbox'[x]
        PROVE  \E l \in DOMAIN inbox[x] :
                 /\ inbox'[x][i] = inbox[x][l] /\ (x = k => c <= inbox[x][l])
                 /\ \A j \in DOMAIN inbox'[x] : i <= j => inbox'[x][i] <= inbox'[x][j]
    <3>1. CASE x # k
      <4>1. inbox'[x] = inbox[x]
        BY <1>0, <2>1, <3>1
      <4> QED BY <1>2, <2>5, <3>1, <4>1
    <3>2. CASE x = k
      <4>1. inbox'[x] = Tail(inbox[k])
        BY <1>0, <2>1, <3>2
      <4>2. i \in Nat \ {0} /\ i + 1 \in DOMAIN inbox[k] /\ inbox'[k][i] = inbox[k][i + 1]
        BY <2>2, <2>5, <3>2, <4>1
      <4>3. c <= inbox[k][i + 1]
        <5>1. 1 <= i + 1
          BY <4>2
        <5> QED BY <1>2, <2>2, <4>2, <5>1
      <4>4. ASSUME NEW j \in DOMAIN inbox'[x], i <= j PROVE inbox'[x][i] <= inbox'[x][j]
        <5>1. j \in Nat /\ j + 1 \in DOMAIN inbox[k] /\ inbox'[k][j] = inbox[k][j + 1]
          BY <2>2, <3>2, <4>1, <4>4
        <5>2. i + 1 <= j + 1
          BY <4>2, <4>4, <5>1
        <5> QED BY <1>2, <3>2, <4>2, <5>1, <5>2
      <4> QED BY <3>2, <4>2, <4>3, <4>4
    <3> QED BY <3>1, <3>2
  <2>6. ASSUME NEW p \in Path, files'[p] # None
        PROVE  /\ files'[p] \in 1..n
               /\ \A j \in DOMAIN toRoot : files'[p] <= toRoot[j]
               /\ \A x \in D!Kid : Called(files'[p]).to = x => \A i \in DOMAIN inbox'[x] : files'[p] <= inbox'[x][i]
    <3>1. CASE files'[p] = c
      <4>1. \A x \in D!Kid : Called(files'[p]).to = x => x = k
        BY <2>4, <3>1
      <4> QED BY <2>2, <2>4, <2>5, <3>1, <4>1
    <3>2. CASE files'[p] = files[p]
      BY <1>3, <2>5, <2>6, <3>2
    <3> QED BY <2>3, <3>1, <3>2
  <2>7. ASSUME NEW x \in D!Kid, NEW i \in DOMAIN inbox'[x]
        PROVE  /\ Called(inbox'[x][i]).to = x
               /\ \A j \in DOMAIN inbox'[x] : i <= j => inbox'[x][i] <= inbox'[x][j]
               /\ \A j \in DOMAIN toRoot : inbox'[x][i] <= toRoot[j]
    BY <1>2, <2>5, <2>7
  <2> QED BY <1>1, <1>12, <2>1, <2>6, <2>7 DEF InOrder, Called
<1> QED
  BY <1>7, <1>8, <1>10, <1>11, <1>13, <1>14, <1>15, <1>16 DEF D!Next

-----------------------------------------------------------------------------
(* Over inproc *)

\* What was found stays found when more is appended.
LEMMA HoldsMore ==
  ASSUME NEW s \in Seq(D!Response), NEW r \in Seq(D!Response)
  PROVE  (Holds(s) \/ Holds(r)) => Holds(s \o r)
<1> PICK a \in Nat, b \in Nat : a = Len(s) /\ b = Len(r)
  BY LenProperties
<1>1. /\ DOMAIN s = 1..a /\ DOMAIN r = 1..b /\ DOMAIN (s \o r) = 1..(a + b)
      /\ \A i \in 1..(a + b) : (s \o r)[i] = IF i <= a THEN s[i] ELSE r[i - a]
  BY ConcatProperties
<1>2. ASSUME NEW i \in 1..a, s[i].cid = D!current PROVE Holds(s \o r)
  <2>1. i \in 1..(a + b) /\ i <= a
    OBVIOUS
  <2> QED BY <1>1, <1>2, <2>1 DEF Holds
<1>3. ASSUME NEW i \in 1..b, r[i].cid = D!current PROVE Holds(s \o r)
  <2>1. a + i \in 1..(a + b) /\ ~(a + i <= a) /\ (a + i) - a = i
    OBVIOUS
  <2> QED BY <1>1, <1>3, <2>1 DEF Holds
<1> QED BY <1>1, <1>2, <1>3 DEF Holds

LEMMA InprocKept ==
  ASSUME TripTypes, RootRunsTasks, InOrder, Inproc, D!Next
  PROVE  Inproc'
<1> USE CallNumbers
<1> PICK n \in Nat : n = D!current
  OBVIOUS
<1> DEFINE t == Called(n).to
<1> SUFFICES ASSUME transport' = "inproc" PROVE Inproc'
  BY DEF Inproc
<1>0. transport = "inproc"
  BY DEF D!Next, D!Link, D!Settle, D!Begin, D!ConfigureChild, D!Send, D!ChildTakes, D!ChildMisses, D!RootRuns,
         D!RootDelegates, D!RootMisses, D!DrainChild, D!DrainMisses, D!Match, D!Retry, D!GiveUp, D!Caught, D!links
<1>1. /\ linked = D!Node /\ settled
      /\ pc \in {"idle", "send", "children", "drain"} /\ attempt \in 0..2 /\ (pc # "idle" => attempt \in 1..2)
      /\ (pc # "idle" /\ attempt = 2) => t # None
      /\ (pc = "idle" => Idle) /\ (pc = "send" => Sends)
      /\ (pc = "children" => Children) /\ (pc = "drain" => Drains)
  BY <1>0 DEF Inproc
<1>2. /\ calls \in Seq([op : D!Op, outcome : D!Outcome \cup {None}]) /\ Len(calls) = n
      /\ toRoot \in Seq(1..n) /\ inbox \in [D!Kid -> Seq(1..n)] /\ up \in [D!Kid -> Seq(D!Response)]
      /\ files \in [Path -> D!Call \cup {None}] /\ got \in Seq(D!Response)
      /\ DOMAIN calls = 1..n /\ (pc # "idle" => n >= 1)
  BY DEF TripTypes, D!TypeOK, D!current
<1>3. /\ \A k : Sent(k) = IF k = t THEN <<n>> ELSE <<>>
      /\ <<n>> # <<>> /\ Head(<<n>>) = n /\ Tail(<<n>>) = <<>> /\ Append(<<>>, n) = <<n>>
  BY DEF Sent
<1>4. ASSUME calls' = calls
      PROVE  /\ D!current' = n /\ Called(D!current)'.to = t
             /\ \A k : Sent(k)' = IF k = t THEN <<n>> ELSE <<>>
  BY <1>4 DEF D!current, Called, Sent
<1>5. Root \in D!Node /\ D!Kid \subseteq D!Node /\ D!Node' = D!Node /\ None \notin D!Kid
  BY TripConstants DEF D!Node, D!Kid, D!DriverConstants
<1>6. todo = <<>> => Waits = {}
  BY DEF Waits
<1>7. todo' = KidSeq => Waits' = D!Kid
  BY AllTurns DEF Waits
<1> HIDE DEF t
<1>8. CASE (\E m \in D!Node : D!Link(m)) \/ D!Settle \/ D!Caught
  BY <1>1, <1>8 DEF D!Link, D!Settle, D!Caught
<1>9. ASSUME NEW op \in D!Op, D!Begin(op) PROVE Inproc'
  <2> DEFINE row == [op |-> op, outcome |-> None]
  <2>1. /\ pc = "idle" /\ calls' = Append(calls, row) /\ pc' = "send" /\ attempt' = 1
        /\ UNCHANGED <<linked, settled, files, toRoot, inbox, up>>
    BY <1>9 DEF D!Begin, D!links, D!nodes, D!wires
  <2>2. row \in [op : D!Op, outcome : D!Outcome \cup {None}]
    OBVIOUS
  <2> HIDE DEF row
  <2>3. D!current' = n + 1 /\ D!current' - 1 = n
    BY <1>2, <2>1, <2>2, AppendProperties DEF D!current
  <2>4. toRoot = <<>> /\ \A k \in D!Kid : up[k] = <<>> /\ (inbox[k] = <<>> \/ inbox[k] = <<n>>)
    BY <1>1, <1>3, <2>1 DEF Idle
  <2>5. Older'
    <3>1. \A p \in Path : files[p] # None => files[p] <= n
      BY DEF InOrder
    <3> QED BY <2>1, <2>3, <3>1 DEF Older
  <2>6. \A k \in D!Kid : Previous(k)'
    BY <2>1, <2>3, <2>4 DEF Previous
  <2>7. Sends'
    BY <2>1, <2>4, <2>5, <2>6 DEF Sends
  <2> QED BY <1>1, <1>5, <2>1, <2>7 DEF Inproc
<1>10. ASSUME NEW k \in D!Kid, NEW p \in Path, D!ConfigureChild(k, p) PROVE Inproc'
  <2>1. /\ pc = "idle" /\ pc' = "idle"
        /\ UNCHANGED <<linked, settled, attempt, calls, toRoot, inbox, up>>
    BY <1>10 DEF D!ConfigureChild, D!links, D!wires
  <2>2. Idle'
    BY <1>1, <1>3, <1>4, <2>1 DEF Idle
  <2> QED BY <1>1, <1>5, <2>1, <2>2 DEF Inproc
<1>11. CASE D!Send
  <2>1. /\ pc = "send" /\ pc' = "children" /\ todo' = KidSeq
        /\ toRoot' = IF Root \in linked THEN Append(toRoot, n) ELSE toRoot
        /\ UNCHANGED <<linked, settled, attempt, calls, files, inbox, up>>
    BY <1>11 DEF D!Send, D!links, D!nodes, D!sent
  <2>2. toRoot' = <<n>> /\ \A k \in D!Kid : up[k] = <<>>
    BY <1>1, <1>3, <1>5, <2>1 DEF Sends
  <2>3. attempt = 1 => Older' /\ \A k \in D!Kid : Previous(k)'
    BY <1>1, <1>4, <2>1 DEF Sends, Older, Previous
  <2>4. attempt # 1 => \A k \in D!Kid : inbox'[k] = Sent(k)'
    BY <1>1, <1>3, <1>4, <2>1 DEF Sends
  <2>5. Children'
    BY <1>4, <1>7, <2>1, <2>2, <2>3, <2>4 DEF Children
  <2>6. pc' # "idle" /\ attempt' = 2 => Called(D!current)'.to # None
    BY <1>1, <1>4, <2>1
  <2> QED BY <1>1, <1>5, <2>1, <2>5, <2>6 DEF Inproc
<1>12. ASSUME NEW k \in D!Kid, NEW o \in D!Outcome, D!ChildTakes(k, o) PROVE Inproc'
  <2> DEFINE c == Head(inbox[k])
  <2> DEFINE r == [cid |-> c, resp |-> o]
  <2>1. /\ pc = "children" /\ pc' = "children" /\ D!Turn(k) /\ inbox[k] # <<>> /\ D!Handles(k, c, o)
        /\ inbox' = [inbox EXCEPT ![k] = Tail(inbox[k])] /\ up' = [up EXCEPT ![k] = Append(up[k], r)]
        /\ todo' = Tail(todo)
        /\ UNCHANGED <<linked, settled, attempt, calls, toRoot>>
    BY <1>12 DEF D!ChildTakes, D!links
  <2>2. toRoot' = <<n>>
    BY <1>1, <2>1 DEF Children
  <2>3. Waits' = Waits \ {k} /\ k \in Waits
    BY <2>1, NextTurn
  <2>4. \A p \in Path : files'[p] = files[p] \/ files'[p] = c
    BY <1>2, <2>1 DEF D!Handles
  <2>5. c \in 1..n /\ r \in D!Response /\ r.cid = c
    BY <1>2, <2>1, HeadTailProperties DEF D!Response
  <2>6. \A x \in D!Kid : x # k => inbox'[x] = inbox[x] /\ up'[x] = up[x]
    BY <1>2, <2>1
  <2>7. inbox'[k] = Tail(inbox[k]) /\ up'[k] = Append(up[k], r)
    BY <1>2, <2>1
  <2>8. ASSUME attempt = 1
        PROVE  /\ Older'
               /\ \A x \in D!Kid : IF x \in Waits' THEN up'[x] = <<>> /\ Previous(x)' ELSE inbox'[x] = <<>>
    <3>1. /\ Older
          /\ \A x \in D!Kid : IF x \in Waits THEN up[x] = <<>> /\ Previous(x) ELSE inbox[x] = <<>>
      BY <1>1, <2>1, <2>8 DEF Children
    <3>2. inbox[k] = <<n - 1>>
      BY <2>1, <2>3, <3>1 DEF Previous
    <3>3. c = n - 1 /\ inbox'[k] = <<>>
      BY <2>7, <3>2
    <3>4. Older'
      BY <1>4, <2>1, <2>4, <2>5, <3>1, <3>3 DEF Older
    <3>5. \A x \in D!Kid : x # k => (Previous(x) => Previous(x)')
      BY <1>4, <2>1, <2>6 DEF Previous
    <3> QED BY <2>3, <2>6, <3>1, <3>3, <3>4, <3>5
  <2>9. ASSUME attempt # 1
        PROVE  \A x \in D!Kid : IF x \in Waits' \/ x # t
                                THEN inbox'[x] = Sent(x)'
                                ELSE inbox'[x] = <<>> /\ Holds(up[x])'
    <3>1. \A x \in D!Kid : IF x \in Waits \/ x # t THEN inbox[x] = Sent(x) ELSE inbox[x] = <<>> /\ Holds(up[x])
      BY <1>1, <2>1, <2>9 DEF Children, t
    <3>2. k = t /\ inbox[k] = <<n>>
      BY <1>3, <2>1, <2>3, <3>1
    <3>3. c = n /\ inbox'[k] = <<>>
      BY <1>3, <2>7, <3>2
    <3> HIDE DEF c, r
    <3>4. Holds(up[k])'
      <4>1. up[k] \in Seq(D!Response)
        BY <1>2
      <4>2. Longer(up'[k], up[k], r)
        BY <2>5, <2>7, <4>1, QueueAppend
      <4>3. \E i \in DOMAIN up'[k] : up'[k][i].cid = n
        <5>1. PICK m \in Nat \ {0} : DOMAIN up'[k] = 1..m /\ up'[k][m] = r
          BY <4>2 DEF Longer
        <5> QED BY <2>5, <3>3, <5>1
      <4> QED BY <1>4, <2>1, <4>3 DEF Holds
    <3> QED BY <1>3, <1>4, <2>1, <2>3, <2>6, <3>1, <3>2, <3>3, <3>4
  <2> HIDE DEF c, r
  <2>10. Children'
    BY <1>4, <2>1, <2>2, <2>8, <2>9 DEF Children
  <2>11. pc' # "idle" /\ attempt' = 2 => Called(D!current)'.to # None
    BY <1>1, <1>4, <2>1
  <2> QED BY <1>1, <1>5, <2>1, <2>10, <2>11 DEF Inproc
<1>13. ASSUME NEW k \in D!Kid, D!ChildMisses(k) PROVE Inproc'
  <2>1. /\ pc = "children" /\ pc' = "children" /\ D!Turn(k) /\ inbox[k] = <<>> /\ todo' = Tail(todo)
        /\ UNCHANGED <<linked, settled, attempt, calls, files, toRoot, inbox, up>>
    BY <1>1, <1>13 DEF D!ChildMisses, D!links, D!nodes, D!wires
  <2>2. toRoot' = <<n>>
    BY <1>1, <2>1 DEF Children
  <2>3. Waits' = Waits \ {k} /\ k \in Waits
    BY <2>1, NextTurn
  <2>4. ASSUME attempt = 1
        PROVE  /\ Older'
               /\ \A x \in D!Kid : IF x \in Waits' THEN up'[x] = <<>> /\ Previous(x)' ELSE inbox'[x] = <<>>
    <3>1. /\ Older
          /\ \A x \in D!Kid : IF x \in Waits THEN up[x] = <<>> /\ Previous(x) ELSE inbox[x] = <<>>
      BY <1>1, <2>1, <2>4 DEF Children
    <3>2. Older'
      BY <1>4, <2>1, <3>1 DEF Older
    <3>3. \A x \in D!Kid : Previous(x) => Previous(x)'
      BY <1>4, <2>1 DEF Previous
    <3> QED BY <2>1, <2>3, <3>1, <3>2, <3>3
  <2>5. ASSUME attempt # 1
        PROVE  \A x \in D!Kid : IF x \in Waits' \/ x # t
                                THEN inbox'[x] = Sent(x)'
                                ELSE inbox'[x] = <<>> /\ Holds(up[x])'
    <3>1. \A x \in D!Kid : IF x \in Waits \/ x # t THEN inbox[x] = Sent(x) ELSE inbox[x] = <<>> /\ Holds(up[x])
      BY <1>1, <2>1, <2>5 DEF Children, t
    <3>2. k # t
      BY <1>3, <2>1, <2>3, <3>1
    <3>3. \A x \in D!Kid : Holds(up[x]) => Holds(up[x])'
      BY <1>4, <2>1 DEF Holds
    <3> QED BY <1>3, <1>4, <2>1, <2>3, <3>1, <3>2, <3>3
  <2>6. Children'
    BY <1>4, <2>1, <2>2, <2>4, <2>5 DEF Children
  <2>7. pc' # "idle" /\ attempt' = 2 => Called(D!current)'.to # None
    BY <1>1, <1>4, <2>1
  <2> QED BY <1>1, <1>5, <2>1, <2>6, <2>7 DEF Inproc
<1>14. ASSUME NEW o \in D!Outcome, D!RootRuns(o) PROVE Inproc'
  <2> DEFINE r == [cid |-> Head(toRoot), resp |-> o]
  <2>1. /\ pc = "children" /\ todo = <<>> /\ D!opOf(Head(toRoot)).to = None /\ got' = <<r>>
        /\ toRoot' = Tail(toRoot) /\ pc' = "drain" /\ todo' = KidSeq
        /\ UNCHANGED <<linked, settled, attempt, calls, inbox, up>>
    BY <1>14 DEF D!RootRuns, D!links
  <2>2. toRoot = <<n>> /\ Head(toRoot) = n /\ toRoot' = <<>> /\ r.cid = n
    BY <1>1, <1>3, <2>1 DEF Children
  <2>3. t = None
    BY <2>1, <2>2 DEF D!opOf, t, Called
  <2> HIDE DEF r
  <2>4. Holds(got)'
    BY <1>4, <2>1, <2>2 DEF Holds
  <2>5. attempt = 1
    BY <1>1, <2>1, <2>3
  <2>6. \A k \in D!Kid : inbox[k] = <<>>
    BY <1>1, <1>6, <2>1, <2>5 DEF Children
  <2>7. Drains'
    BY <1>3, <1>4, <1>5, <1>7, <2>1, <2>2, <2>3, <2>4, <2>6 DEF Drains
  <2> QED BY <1>1, <1>5, <2>1, <2>5, <2>7 DEF Inproc
<1>15. CASE D!RootDelegates
  <2>1. /\ pc = "children" /\ todo = <<>> /\ D!opOf(Head(toRoot)).to # None
        /\ inbox' = [inbox EXCEPT ![D!opOf(Head(toRoot)).to] =
                       IF D!opOf(Head(toRoot)).to \in linked
                       THEN Append(inbox[D!opOf(Head(toRoot)).to], Head(toRoot))
                       ELSE inbox[D!opOf(Head(toRoot)).to]]
        /\ toRoot' = Tail(toRoot) /\ pc' = "drain" /\ todo' = KidSeq
        /\ UNCHANGED <<linked, settled, attempt, calls, up, got>>
    BY <1>15 DEF D!RootDelegates, D!links, D!nodes, D!sent
  <2>2. Head(toRoot) = n /\ toRoot' = <<>>
    BY <1>1, <1>3, <2>1 DEF Children
  <2>3. D!opOf(n) = Called(n)
    BY DEF D!opOf, Called
  <2>4. t # None /\ t \in D!Kid /\ t \in linked
    <3>1. n \in 1..n
      BY <1>2, <2>1
    <3>2. t # None
      BY <2>1, <2>2, <2>3 DEF t
    <3>3. Called(n) \in D!Op
      BY <3>1 DEF Called
    <3>4. t \in D!Kid
      BY <3>2, <3>3 DEF t, D!Op
    <3> QED BY <1>1, <1>5, <3>2, <3>4
  <2>5. inbox' = [inbox EXCEPT ![t] = Append(inbox[t], n)]
    BY <2>1, <2>2, <2>3, <2>4 DEF t
  <2>6. inbox'[t] = Append(inbox[t], n) /\ \A k \in D!Kid : k # t => inbox'[k] = inbox[k]
    BY <1>2, <2>4, <2>5
  <2>7. Waits = {} /\ Waits' = D!Kid
    BY <1>6, <1>7, <2>1
  <2>8. CASE attempt = 1
    <3>1. \A k \in D!Kid : inbox[k] = <<>>
      BY <1>1, <2>1, <2>7, <2>8 DEF Children
    <3>2. \A k \in D!Kid : inbox'[k] = IF k = t THEN <<n>> ELSE <<>>
      BY <1>3, <2>4, <2>6, <3>1
    <3>3. Drains'
      BY <1>4, <2>1, <2>2, <2>4, <2>7, <2>8, <3>2 DEF Drains
    <3> QED BY <1>1, <1>5, <2>1, <2>8, <3>3 DEF Inproc
  <2>9. CASE attempt # 1
    <3>1. \A k \in D!Kid : IF k # t THEN inbox[k] = Sent(k) ELSE inbox[k] = <<>> /\ Holds(up[k])
      BY <1>1, <2>1, <2>7, <2>9 DEF Children, t
    <3>2. \A k \in D!Kid : inbox'[k] = IF k = t THEN <<n>> ELSE <<>>
      BY <1>3, <2>4, <2>6, <3>1
    <3>3. \E x \in D!Kid : x = t /\ Holds(up[x])'
      <4>1. \A x \in D!Kid : Holds(up[x]) => Holds(up[x])'
        BY <1>4, <2>1 DEF Holds
      <4> QED BY <2>4, <3>1, <4>1
    <3>4. Drains'
      BY <1>4, <2>1, <2>2, <2>4, <2>7, <3>2, <3>3 DEF Drains
    <3> QED BY <1>1, <1>4, <1>5, <2>1, <2>4, <3>4 DEF Inproc
  <2> QED BY <2>8, <2>9
<1>16. CASE D!RootMisses
  <2>1. pc = "children" /\ toRoot = <<>>
    BY <1>1, <1>16 DEF D!RootMisses
  <2> QED BY <1>1, <1>3, <2>1 DEF Children
<1>17. ASSUME NEW k \in D!Kid, D!DrainChild(k) \/ D!DrainMisses(k) PROVE Inproc'
  <2>1. /\ pc = "drain" /\ pc' = "drain" /\ D!Turn(k) /\ todo' = Tail(todo)
        /\ got' = got \o up[k] /\ up' = [up EXCEPT ![k] = <<>>]
        /\ UNCHANGED <<linked, settled, attempt, calls, toRoot, inbox>>
    <3>1. CASE D!DrainChild(k)
      BY <3>1 DEF D!DrainChild, D!links, D!nodes
    <3>2. CASE D!DrainMisses(k)
      <4>1. /\ pc = "drain" /\ pc' = "drain" /\ D!Turn(k) /\ up[k] = <<>> /\ todo' = Tail(todo)
            /\ UNCHANGED <<linked, settled, attempt, calls, toRoot, inbox, up, got>>
        BY <1>1, <3>2 DEF D!DrainMisses, D!links, D!nodes, D!wires
      <4>2. got \o <<>> = got
        BY <1>2, EmptySeq
      <4>3. up = [up EXCEPT ![k] = <<>>]
        BY <1>2, <4>1
      <4> QED BY <4>1, <4>2, <4>3
    <3> QED BY <1>17, <3>1, <3>2
  <2>2. toRoot = <<>> /\ \A x \in D!Kid : inbox[x] = Sent(x) /\ (x \notin Waits => up[x] = <<>>)
    BY <1>1, <2>1 DEF Drains
  <2>3. Waits' = Waits \ {k} /\ k \in Waits
    BY <2>1, NextTurn
  <2>4. \A x \in D!Kid : up'[x] = IF x = k THEN <<>> ELSE up[x]
    BY <1>2, <2>1
  <2>5. Holds(got) \/ Holds(up[k]) => Holds(got)'
    <3>1. up[k] \in Seq(D!Response)
      BY <1>2
    <3>2. Holds(got) \/ Holds(up[k]) => Holds(got \o up[k])
      BY <1>2, <3>1, HoldsMore
    <3>3. Holds(got \o up[k]) => Holds(got)'
      BY <1>4, <2>1 DEF Holds
    <3> QED BY <3>2, <3>3
  <2>6. ASSUME attempt # 1 \/ t = None
        PROVE  Holds(got)' \/ (\E x \in Waits' : x = t /\ Holds(up[x])')
    <3>1. Holds(got) \/ (\E x \in Waits : x = t /\ Holds(up[x]))
      BY <1>1, <2>1, <2>6 DEF Drains, t
    <3>2. ASSUME NEW x \in Waits, x = t, Holds(up[x]) PROVE Holds(got)' \/ (\E y \in Waits' : y = t /\ Holds(up[y])')
      <4>1. CASE x = k
        BY <2>5, <3>2, <4>1
      <4>2. CASE x # k
        <5>1. x \in D!Kid
          <6>1. \A i \in DOMAIN todo : todo[i] \in D!Kid
            BY DEF TripTypes, D!TypeOK
          <6> QED BY <6>1 DEF Waits
        <5>2. Holds(up[x])'
          BY <1>4, <2>1, <2>4, <3>2, <4>2, <5>1 DEF Holds
        <5> QED BY <2>3, <3>2, <4>2, <5>2
      <4> QED BY <4>1, <4>2
    <3> QED BY <2>5, <3>1, <3>2
  <2>7. Drains'
    BY <1>3, <1>4, <2>1, <2>2, <2>3, <2>4, <2>6 DEF Drains
  <2>8. pc' # "idle" /\ attempt' = 2 => Called(D!current)'.to # None
    BY <1>1, <1>4, <2>1
  <2> QED BY <1>1, <1>5, <2>1, <2>7, <2>8 DEF Inproc
<1>18. CASE D!Match
  <2>1. PICK i \in D!Matches : calls' = [calls EXCEPT ![n].outcome = got[i].resp]
    BY <1>18 DEF D!Match
  <2>2. /\ pc = "drain" /\ todo = <<>> /\ pc' = "idle"
        /\ UNCHANGED <<linked, settled, attempt, toRoot, inbox, up>>
    BY <1>18 DEF D!Match, D!links, D!nodes, D!wires
  <2>3. Len(calls') = n /\ n \in 1..n
    BY <1>2, <2>1, <2>2
  <2>4. calls'[n].op = calls[n].op
    <3>1. calls[n] \in [op : D!Op, outcome : D!Outcome \cup {None}]
      BY <2>3
    <3> QED BY <1>2, <2>1, <2>3, <3>1
  <2>5. D!current' = n /\ Called(D!current)' = Called(n) /\ \A k : Sent(k)' = Sent(k)
    BY <2>3, <2>4 DEF D!current, Called, Sent
  <2>6. toRoot = <<>> /\ \A k \in D!Kid : up[k] = <<>> /\ inbox[k] = Sent(k)
    BY <1>1, <1>6, <2>2 DEF Drains
  <2>7. Idle'
    BY <1>2, <2>2, <2>5, <2>6 DEF Idle
  <2> QED BY <1>1, <1>5, <2>2, <2>7 DEF Inproc
<1>19. CASE D!Retry \/ D!GiveUp
  <2>1. /\ pc = "drain" /\ todo = <<>> /\ D!Matches = {}
        /\ UNCHANGED <<linked, settled, calls, files, toRoot, inbox, up>>
    BY <1>19 DEF D!Retry, D!GiveUp, D!links, D!nodes, D!wires
  <2>2. ~Holds(got)
    BY <2>1 DEF D!Matches, Holds
  <2>3. attempt = 1 /\ t # None
    BY <1>1, <1>6, <2>1, <2>2 DEF Drains, t
  <2>4. attempt # Attempts
    BY <2>3, TripConstants DEF D!DriverConstants
  <2>5. pc' = "send" /\ attempt' = 2
    BY <1>19, <2>3, <2>4 DEF D!Retry, D!GiveUp
  <2>6. toRoot = <<>> /\ \A k \in D!Kid : up[k] = <<>> /\ inbox[k] = Sent(k)
    BY <1>1, <1>6, <2>1 DEF Drains
  <2>7. Sends'
    BY <1>3, <1>4, <2>1, <2>5, <2>6 DEF Sends
  <2> QED BY <1>1, <1>4, <1>5, <2>1, <2>3, <2>5, <2>7 DEF Inproc
<1> QED
  BY <1>8, <1>9, <1>10, <1>11, <1>12, <1>13, <1>14, <1>15, <1>16, <1>17, <1>18, <1>19 DEF D!Next

-----------------------------------------------------------------------------
(* The round trips, put together *)

TripAll == TripInv /\ RootRunsTasks

LEMMA InitTrips == D!Init => TripAll
<1> SUFFICES ASSUME D!Init PROVE TripAll
  OBVIOUS
<1>1. /\ transport \in Transports /\ settled = (transport = "inproc")
      /\ linked = (IF transport = "inproc" THEN D!Node ELSE {})
      /\ calls = <<>> /\ pc = "idle" /\ attempt = 0 /\ todo = <<>> /\ got = <<>> /\ toRoot = <<>>
      /\ inbox = [k \in D!Kid |-> <<>>] /\ up = [k \in D!Kid |-> <<>>]
      /\ delegated = [c \in D!Call |-> None] /\ results = [c \in D!Call |-> None]
      /\ granted = [k \in D!Kid |-> None] /\ files = [p \in Path |-> None]
  BY DEF D!Init
<1>2. Transports \subseteq {"inproc", "tcp"} /\ MaxCalls \in [Transports -> Nat] /\ Attempts \in Nat
  BY TripConstants DEF D!DriverConstants
<1>3. D!current = 0
  BY <1>1 DEF D!current
<1>4. /\ calls \in Seq([op : D!Op, outcome : D!Outcome \cup {None}]) /\ todo \in Seq(D!Kid)
      /\ got \in Seq(D!Response) /\ toRoot \in Seq(1..D!current) /\ <<>> \in Seq(1..D!current)
      /\ <<>> \in Seq(D!Response) /\ Len(calls) = 0
  BY <1>1
<1>5. D!TypeOK
  <2>1. Len(calls) <= MaxCalls[transport] /\ attempt \in 0..Attempts
    BY <1>1, <1>2, <1>4
  <2>2. linked \subseteq D!Node /\ transport \in {"inproc", "tcp"} /\ settled \in BOOLEAN
    BY <1>1, <1>2
  <2> QED BY <1>1, <1>4, <2>1, <2>2 DEF D!TypeOK
<1>6. TripTypes
  BY <1>1, <1>5 DEF TripTypes
<1>7. ValuesCached
  BY <1>1, <1>3 DEF ValuesCached
<1>8. InOrder
  BY <1>1 DEF InOrder
<1>9. Inproc
  <2>1. Idle
    BY <1>1 DEF Idle
  <2>2. attempt \in 0..2 /\ pc \in {"idle", "send", "children", "drain"}
    BY <1>1
  <2>3. transport = "inproc" => linked = D!Node /\ settled
    BY <1>1
  <2> QED BY <1>1, <2>1, <2>2, <2>3 DEF Inproc
<1>10. RootRunsTasks
  BY <1>3 DEF RootRunsTasks
<1> QED BY <1>6, <1>7, <1>8, <1>9, <1>10 DEF TripAll, TripInv

LEMMA NextTrips ==
  ASSUME TripAll, [D!Next]_trips
  PROVE  TripAll'
<1>1. CASE D!Next
  BY <1>1, TripTypesKept, ValuesCachedKept, InOrderKept, InprocKept DEF TripAll, TripInv
<1>2. CASE UNCHANGED trips
  <2>1. UNCHANGED <<transport, linked, settled, calls, pc, attempt, todo, got, toRoot, inbox, up,
                    delegated, results, granted, files>>
    BY <1>2 DEF trips
  <2>2. /\ D!current' = D!current /\ \A c : Called(c)' = Called(c)
        /\ D!Call' = D!Call /\ D!Kid' = D!Kid /\ D!Response' = D!Response /\ D!Op' = D!Op /\ D!Outcome' = D!Outcome
        /\ D!Node' = D!Node /\ Waits' = Waits
    BY <2>1 DEF D!current, Called, D!Call, D!Kid, D!Response, D!Op, D!Outcome, D!Node, Waits
  <2>3. TripTypes'
    BY <2>1, <2>2 DEF TripAll, TripInv, TripTypes, D!TypeOK
  <2>4. ValuesCached'
    BY <2>1, <2>2 DEF TripAll, TripInv, ValuesCached
  <2>5. InOrder'
    BY <2>1, <2>2 DEF TripAll, TripInv, InOrder, Called
  <2>6. RootRunsTasks'
    BY <2>1, <2>2 DEF TripAll, RootRunsTasks, Called
  <2>7. Inproc'
    BY <2>1, <2>2 DEF TripAll, TripInv, Inproc, Idle, Sends, Children, Drains, Older, Previous, Sent, Holds, Called
  <2> QED BY <2>3, <2>4, <2>5, <2>6, <2>7 DEF TripAll, TripInv
<1> QED BY <1>1, <1>2

\* What the round trips promise follows.
LEMMA TripsAre ==
  ASSUME TripAll
  PROVE  D!TypeOK /\ D!InprocAnswersByTwo /\ D!InprocLeftoverBounded /\ D!ReportedValueIsCached
<1>1. D!TypeOK /\ ValuesCached /\ Inproc
  BY DEF TripAll, TripInv, TripTypes
<1>2. D!InprocAnswersByTwo
  <2> SUFFICES ASSUME transport = "inproc" PROVE pc # "raised" /\ attempt <= 2
    BY DEF D!InprocAnswersByTwo
  <2> QED BY <1>1 DEF Inproc
<1>3. D!InprocLeftoverBounded
  <2> SUFFICES ASSUME transport = "inproc", pc = "idle"
               PROVE  /\ toRoot = <<>>
                      /\ \A k \in D!Kid : /\ up[k] = <<>>
                                          /\ inbox[k] = <<>> \/ (inbox[k] = <<D!current>> /\ D!opOf(D!current).to = k)
    BY DEF D!InprocLeftoverBounded
  <2>1. Idle
    BY <1>1 DEF Inproc
  <2> QED BY <2>1 DEF Idle, Sent, Called, D!opOf
<1>4. D!ReportedValueIsCached
  BY <1>1 DEF ValuesCached, D!ReportedValueIsCached
<1> QED BY <1>1, <1>2, <1>3, <1>4

\* A store is written by a later call's directive only, among those of the same child, and over
\* inproc among all.
LEMMA WritesStep ==
  ASSUME TripAll, D!Next
  PROVE  D!FilesOnlyMoveOn
<1> USE CallNumbers
<1> PICK n \in Nat : n = D!current
  BY DEF TripAll, TripInv
<1>0. TripTypes /\ RootRunsTasks /\ InOrder /\ Inproc
  BY DEF TripAll, TripInv
<1>1. /\ inbox \in [D!Kid -> Seq(1..n)] /\ toRoot \in Seq(1..n)
      /\ files \in [Path -> D!Call \cup {None}] /\ granted \in [D!Kid -> Path \cup {None}]
  BY <1>0 DEF TripTypes, D!TypeOK
<1> SUFFICES ASSUME NEW p \in Path, files[p] # None, files'[p] # files[p],
                    transport = "inproc" \/ D!opOf(files'[p]).to = D!opOf(files[p]).to
             PROVE  files'[p] > files[p]
  BY DEF D!FilesOnlyMoveOn
<1>2. files[p] \in 1..n
  BY <1>0 DEF InOrder
<1>3. PICK k \in D!Kid, o \in D!Outcome : D!ChildTakes(k, o)
  <2>1. files' # files
    OBVIOUS
  <2>2. ASSUME NEW o \in D!Outcome, D!RootRuns(o) PROVE FALSE
    <3>1. toRoot # <<>> /\ D!opOf(Head(toRoot)).to = None /\ D!Handles(Root, Head(toRoot), o)
      BY <2>2 DEF D!RootRuns
    <3>2. Head(toRoot) \in 1..n
      BY <1>1, <3>1, HeadTailProperties
    <3>3. files' = files
      BY <1>0, <3>1, <3>2 DEF RootRunsTasks, D!Handles, Called, D!opOf
    <3> QED BY <2>1, <3>3
  <2> QED BY <2>1, <2>2 DEF D!Next, D!Link, D!Settle, D!Begin, D!ConfigureChild, D!Send, D!ChildMisses,
             D!RootDelegates, D!RootMisses, D!DrainChild, D!DrainMisses, D!Match, D!Retry, D!GiveUp, D!Caught, D!nodes
<1> DEFINE c == Head(inbox[k])
<1>4. pc = "children" /\ D!Turn(k) /\ inbox[k] # <<>> /\ D!Handles(k, c, o) /\ todo' = Tail(todo)
  BY <1>3 DEF D!ChildTakes
<1>5. 1 \in DOMAIN inbox[k] /\ c = inbox[k][1] /\ c \in 1..n
  BY <1>1, <1>4, QueueTail, HeadTailProperties
<1>6. files'[p] = c
  BY <1>1, <1>4 DEF D!Handles
<1> HIDE DEF c
<1>7. files[p] <= c
  <2>1. CASE transport = "inproc"
    <3>1. Children /\ attempt \in 1..2
      BY <1>0, <1>4, <2>1 DEF Inproc
    <3>2. k \in Waits
      BY <1>0, <1>4, NextTurn
    <3>3. CASE attempt = 1
      <4>1. Previous(k) /\ Older
        BY <3>1, <3>2, <3>3 DEF Children
      <4>2. inbox[k] = <<n - 1>>
        BY <1>4, <4>1 DEF Previous
      <4>3. files[p] <= n - 1
        BY <4>1 DEF Older
      <4> QED BY <1>5, <4>2, <4>3
    <3>4. CASE attempt # 1
      <4>1. inbox[k] = Sent(k)
        BY <3>1, <3>2, <3>4 DEF Children
      <4>2. inbox[k] = <<n>>
        BY <1>4, <4>1 DEF Sent
      <4> QED BY <1>2, <1>5, <4>2
    <3> QED BY <3>3, <3>4
  <2>2. CASE transport # "inproc"
    <3>1. D!opOf(c).to = D!opOf(files[p]).to
      BY <1>6, <2>2
    <3>2. Called(c).to = k
      BY <1>0, <1>5 DEF InOrder
    <3>3. Called(files[p]).to = k
      BY <3>1, <3>2 DEF Called, D!opOf
    <3> QED BY <1>0, <1>5, <3>3 DEF InOrder
  <2> QED BY <2>1, <2>2
<1> QED BY <1>2, <1>5, <1>6, <1>7

\* The invariant of both sides together.
DriversInv == part \in {"session", "trips"} /\ (part = "trips" => TripAll)

LEMMA DriversInvHolds == SpecDrivers => []DriversInv
<1>1. InitDrivers => DriversInv
  BY InitTrips DEF InitDrivers, DriversInv
<1>2. DriversInv /\ [NextDrivers]_<<part, vars, trips>> => DriversInv'
  <2> SUFFICES ASSUME DriversInv, [NextDrivers]_<<part, vars, trips>> PROVE DriversInv'
    OBVIOUS
  <2>1. part' = part
    BY DEF NextDrivers
  <2>2. part = "trips" => [D!Next]_trips
    BY DEF NextDrivers
  <2> QED BY <2>1, <2>2, NextTrips DEF DriversInv
<1> QED BY <1>1, <1>2, PTL DEF SpecDrivers

\* Of the driver's round trips (CbpDriver._roundtrip), for any children, values, paths, bound on the
\* calls and at least two attempts: only recorded calls are in flight; over inproc no call ends
\* without an answer, and two attempts give it, whatever copies of earlier calls are left; what a
\* call leaves behind over inproc is at most one copy of itself, for the child it went to; and a
\* reported value is the one in the cache of the agent that ran it, over every transport.
THEOREM RoundTripsBounded == SpecDrivers => []TripsBounded
<1>1. DriversInv => TripsBounded
  BY TripsAre DEF DriversInv, TripsBounded
<1> QED BY <1>1, DriversInvHolds, PTL

\* A stored write is replaced by a later call's to the same child only, however often the directives
\* are sent and wherever the copies wait; over inproc by a later call's only, whichever child.
THEOREM StoresMoveOn == SpecDrivers => WritesMoveOn
<1>1. DriversInv /\ [NextDrivers]_<<part, vars, trips>> => [part = "trips" => D!FilesOnlyMoveOn]_trips
  <2> SUFFICES ASSUME DriversInv, NextDrivers, part = "trips", ~UNCHANGED trips PROVE D!FilesOnlyMoveOn
    BY DEF trips
  <2> QED BY WritesStep DEF DriversInv, NextDrivers
<1> QED BY <1>1, DriversInvHolds, PTL DEF SpecDrivers, WritesMoveOn
=============================================================================

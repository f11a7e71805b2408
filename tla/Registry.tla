------------------------------ MODULE Registry ------------------------------
(* The legacy bills registry: tasks whose agents ask for tools over one JSON   *)
(* file of the workspace (control_plane/bills_registry.py, intake.py and       *)
(* workspace.py, agents/bills_registry.py and intake.py), and the verifier     *)
(* that recomputes a task's output from the registry in its payload.  A tool   *)
(* reads the file whole, and writes it by truncating it and writing it again.  *)
EXTENDS Intake, SequencesExt, FiniteSetsExt

CONSTANTS Runs,      \* tasks that run at the same time
          Payloads,  \* what a task may be given, but for the registry
          Granted,   \* the tools the policy grants
          Initial,   \* the bills the file has at first
          Inbox,     \* the sources in the drop zone, in the order of their names
          Malformed, Empty, Torn,  \* a document that is refused, a file that is truncated, or mixed
          MaxTasks, MaxBills \* bounds: tasks, and the bills a registry may grow to

VARIABLES
  file,     \* the registry file: its bills, Empty or Torn
  work,     \* per run: its task and how far its tool is, or None
  asked,    \* history: the contents of bills that tasks asked for
  written,  \* history: the registries that were ever written
  tasks
vars == <<file, work, asked, written, tasks>>

Statuses == {"due", "paid", "skipped"}
Ids(bills) == {bills[i].id : i \in DOMAIN bills}
\* BillsRegistry: at least one bill, ids that are unique; a bill has an amount and a date.
ValidBill(b) == b.amount # None /\ b.due # None /\ b.vendor # None /\ b.status \in Statuses
Valid(bills) ==
  bills # <<>> /\ Cardinality(Ids(bills)) = Len(bills) /\ \A i \in DOMAIN bills : ValidBill(bills[i])
LoadRegistry(content) == IF content \in {Empty, Torn, Malformed} THEN Refused ELSE IF Valid(content) THEN content ELSE Refused

-----------------------------------------------------------------------------
(* What each operation makes of a registry: the bills to write, or none, and   *)
(* what it answers.                                                            *)

Result(bills, out) == [bills |-> bills, out |-> out]
FailsClosed == Result(None, Refused)
Checked(bills, out) == IF Valid(bills) THEN Result(bills, out) ELSE FailsClosed

\* upsert_bill: replaced in place, or appended.
UpsertBill(bills, b) ==
  IF ~ValidBill(b) THEN FailsClosed
  ELSE IF b.id \in Ids(bills)
       THEN Checked([i \in DOMAIN bills |-> IF bills[i].id = b.id THEN b ELSE bills[i]], <<"upsert", b, FALSE>>)
       ELSE Checked(Append(bills, b), <<"upsert", b, TRUE>>)
\* update_bill_status
SetStatus(bills, id, status) ==
  IF status \notin Statuses \/ id \notin Ids(bills) THEN FailsClosed
  ELSE LET i == CHOOSE k \in DOMAIN bills : bills[k].id = id
           changed == [bills EXCEPT ![i].status = status]
       IN Checked(changed, <<IF status = "paid" THEN "mark_paid" ELSE "mark_status", changed[i], FALSE>>)

\* project_calendar
ProjectCalendar(bills, from, to, paid) ==
  IF from > to THEN FailsClosed
  ELSE LET shown == SelectSeq(bills, LAMBDA b : b.due \in from..to /\ (paid \/ b.status # "paid"))
           ordered == SortSeq(shown, LAMBDA b, c : b.due < c.due)
       IN Result(None, <<"calendar", ordered, FoldSeq(LAMBDA b, sum : sum + b.amount, 0, ordered)>>)

\* accept_drafts: each accepted draft is a new bill, under its id or the first free id#n.
BillId(id, n) == IF n = 0 THEN id ELSE <<id, n>>
FreeId(id, ids) == BillId(id, CHOOSE n \in 0..Cardinality(ids) : BillId(id, n) \notin ids /\ \A m \in 0..(n - 1) : BillId(id, m) \in ids)
ToRegistryBill(d, id) == [id |-> id, vendor |-> d.vendor, amount |-> d.amount, due |-> d.due, status |-> "due"]
AcceptDrafts(bills, drafts, accept) ==
  LET byId(id) == drafts[CHOOSE k \in DOMAIN drafts : drafts[k].id = id]
      add(id, all) == Append(all, ToRegistryBill(byId(id), FreeId(id, Ids(all))))
  IN IF drafts = Malformed \/ accept = <<>> THEN FailsClosed
     ELSE IF Cardinality(Ids(drafts)) # Len(drafts) \/ ~(ToSet(accept) \subseteq Ids(drafts)) THEN FailsClosed
     ELSE Checked(FoldLeft(LAMBDA all, id : add(id, all), bills, accept), <<"accept", ToSet(accept)>>)

Operation(bills, p) ==
  CASE p.op = "load" -> Result(None, <<"load", bills>>)
    [] p.op = "calendar" -> ProjectCalendar(bills, p.from, p.to, p.paid)
    [] p.op = "upsert" -> UpsertBill(bills, p.bill)
    [] p.op \in {"mark_paid", "mark_status"} -> SetStatus(bills, p.id, IF p.op = "mark_paid" THEN "paid" ELSE p.status)
    [] p.op = "accept" -> AcceptDrafts(bills, p.drafts, p.accept)
    [] p.op = "drafts" -> Result(None, <<"drafts", ExtractFrom(Inbox)>>)

-----------------------------------------------------------------------------
(* The verifiers: verify_bills_registry_output, verify_intake_output.  Of an   *)
(* accept, they compare the accepted ids alone.                                *)
Passes(p, registry, out) ==
  IF out = Refused THEN FALSE
  ELSE IF p.op = "drafts" THEN TRUE
  ELSE LET bills == LoadRegistry(registry) IN bills # Refused /\ Operation(bills, p).out = out

-----------------------------------------------------------------------------
(* A task and its tool *)

Init ==
  /\ file = Initial /\ work = [r \in Runs |-> None] /\ tasks = 0
  /\ asked = {[id |-> b.id, vendor |-> b.vendor, amount |-> b.amount, due |-> b.due] : b \in ToSet(Initial)}
  /\ written = {Initial}

Others(r) == {s \in Runs \ {r} : work[s] # None}
Running(r, step) == work[r] # None /\ work[r].step = step

\* What a payload asks for: a bill, or drafts by their ids.
Content(id, b) == [id |-> id, vendor |-> b.vendor, amount |-> b.amount, due |-> b.due]
Asks(p) ==
  CASE p.op = "upsert" -> {Content(p.bill.id, p.bill)}
    [] p.op = "accept" /\ p.drafts # Malformed ->
         {Content(BillId(d.id, n), d) : d \in {e \in ToSet(p.drafts) : e.id \in ToSet(p.accept)}, n \in 0..MaxBills}
    [] OTHER -> {}
\* The agent starts with a payload that has a registry its caller read before, validates it and
\* asks for its tool; a tool that is not granted leaves it without an output.
Start(r, p, registry) ==
  /\ work[r] = None /\ tasks < MaxTasks /\ tasks' = tasks + 1
  /\ work' = [s \in Runs |-> IF s = r THEN [task |-> p, registry |-> registry, read |-> None, bills |-> None, out |-> Refused,
                                            alone |-> Others(r) = {}, step |-> IF p.op \in Granted THEN "read" ELSE "verify"]
                             ELSE IF work[s] = None THEN None ELSE [work[s] EXCEPT !.alone = FALSE]]
  /\ asked' = asked \cup Asks(p)
  /\ UNCHANGED <<file, written>>

\* The tool reads the registry and computes; a registry it cannot load refuses the call.
ReadRegistry(r) ==
  /\ Running(r, "read")
  /\ LET bills == LoadRegistry(file)
         res == IF bills = Refused THEN FailsClosed ELSE Operation(bills, work[r].task)
     IN /\ res.bills # None => Len(res.bills) <= MaxBills
        /\ work' = [work EXCEPT ![r] = [@ EXCEPT !.read = bills, !.bills = res.bills, !.out = res.out,
                                                 !.step = IF res.bills = None THEN "verify" ELSE "truncate"]]
  /\ UNCHANGED <<file, asked, written, tasks>>
\* write_text opens for writing, which empties the file.
Truncate(r) ==
  /\ Running(r, "truncate") /\ file' = Empty /\ work' = [work EXCEPT ![r].step = "write"]
  /\ UNCHANGED <<asked, written, tasks>>
\* Written over what another wrote after the truncation, a shorter text leaves the other's end behind.
WriteRegistry(r) ==
  /\ Running(r, "write")
  /\ file' \in {work[r].bills} \cup (IF file \in {Empty, work[r].bills} THEN {} ELSE {Torn})
  /\ written' = written \cup {work[r].bills} /\ work' = [work EXCEPT ![r].step = "verify"]
  /\ UNCHANGED <<asked, tasks>>
WriteFailsQuietly(r) ==
  /\ Running(r, "write") /\ work' = [work EXCEPT ![r].step = "verify"]
  /\ UNCHANGED <<file, asked, written, tasks>>
\* The write fails, with the file emptied: the tool call fails.
WriteFails(r) ==
  /\ Running(r, "write") /\ work' = [work EXCEPT ![r].step = "verify", ![r].out = Refused]
  /\ UNCHANGED <<file, asked, written, tasks>>
\* The verdict: the task is done.
Verify(r) ==
  /\ Running(r, "verify")
  /\ work' = [work EXCEPT ![r].step = IF Passes(work[r].task, work[r].registry, work[r].out) THEN "verified" ELSE "failed"]
  /\ UNCHANGED <<file, asked, written, tasks>>
Leave(r) ==
  /\ work[r] # None /\ work[r].step \in {"verified", "failed"} /\ work' = [work EXCEPT ![r] = None]
  /\ UNCHANGED <<file, asked, written, tasks>>
\* The process ends: its tasks are gone.
Crash ==
  /\ \E r \in Runs : work[r] # None
  /\ work' = [r \in Runs |-> None] /\ UNCHANGED <<file, asked, written, tasks>>

Next ==
  \/ \E r \in Runs :
       \/ \E p \in Payloads : \E registry \in written \cup {Malformed} : Start(r, p, registry)
       \/ ReadRegistry(r) \/ Truncate(r) \/ WriteRegistry(r) \/ WriteFails(r) \/ Verify(r) \/ Leave(r)
  \/ Crash
Spec == Init /\ [][Next]_vars

-----------------------------------------------------------------------------
(* Properties *)

\* Every bill of the file, whatever tasks overlapped or broke off, has the content some task asked
\* for under that id, or the file had at first: an accept takes in the drafts it names, no other.
OnlyAskedBills == file \notin {Empty, Torn} => {Content(b.id, b) : b \in ToSet(file)} \subseteq asked

\* A task that passed verification and wrote, with no other task beside it, has changed what it
\* named and nothing else: the other bills, their order and their statuses are as it read them.
Named(w) ==
  CASE w.task.op = "upsert" -> {w.task.bill.id}
    [] w.task.op \in {"mark_paid", "mark_status"} -> {w.task.id}
    [] OTHER -> {}
OthersUntouched ==
  \A r \in Runs : Running(r, "verified") /\ work[r].alone /\ work[r].bills # None =>
    /\ file = work[r].bills /\ Len(file) >= Len(work[r].read)
    /\ \A i \in DOMAIN work[r].read : work[r].read[i].id \notin Named(work[r]) => file[i] = work[r].read[i]
    /\ work[r].task.op = "accept" => Len(file) = Len(work[r].read) + Len(work[r].task.accept)
=============================================================================

------------------------------ MODULE MCStores ------------------------------
(* What processes share through files, on small instances: the SQLite stores, the transparency log *)
(* with its rotating keys and the threshold signatures; and the bills of both generations, two     *)
(* processes over one state file, with bills that share an id, an email and a broken file, and two *)
(* tasks over one registry file.  A behaviour is one of one part.                                  *)
EXTENDS SqlStores, Integers, TLC

CONSTANTS
  Publishers, Locks, ReleaseKeys, ReleaseWindows, Now, MaxLog, MaxDamage,  \* Release
  Holders, Eligible, Threshold,                                           \* ThresholdSig
  None, Refused, BillProcs, Sources, Grants, RuleIds, Matchers, CalendarWindows, Marks, RulesKey,
  MaxWrites, MaxDrafts,                                                   \* Bills
  Runs, Payloads, Initial, Inbox, Granted, Malformed, Empty, Torn, MaxTasks, MaxBills,  \* Registry
  i1, i2, i3, r1, r2, b1, b2, payee1, payee2

VARIABLES part,
          clock, log, pub, heads, damage, raced,     \* Release
          shares, accepted,                     \* ThresholdSig
          table, proc, drafts, admitted, dirty, agenda, writes,  \* Bills
          file, work, asked, written, tasks     \* Registry
sql == vars
release == <<clock, log, pub, heads, damage, raced>>
threshold == <<shares, accepted>>
tree == <<table, proc, drafts, admitted, dirty, agenda, writes>>
legacy == <<file, work, asked, written, tasks>>

Symmetric == Permutations(Procs) \cup Permutations(Resolutions)

\* Two keys that rotate: the outgoing one verifies through the overlap but no longer signs.
Rotating == ("j" :> [not_before |-> 0, not_after |-> 1, signs |-> TRUE])
         @@ ("k" :> [not_before |-> 1, not_after |-> 3, signs |-> TRUE])

\* A burnt number needs a third content to be used late; the queue has one item and two resolutions of it.
Contents == [review |-> {i1}, ledger |-> {i1, i2, i3}, chat |-> {i1, i2}]
\* The first call of either resolution finds nothing.
ResolvedItem == [r \in Resolutions |-> i1]
L == INSTANCE Release WITH Keys <- ReleaseKeys, Windows <- ReleaseWindows
T == INSTANCE ThresholdSig WITH Keys <- Holders

File(id, vendor, whole, due) ==
  [format |-> "csv", id |-> id, path |-> b2, readable |-> TRUE, vendor |-> vendor, amount |-> [whole |-> whole, frac |-> <<>>], due |-> due]
Email == [File(b1, payee1, 12, 2) EXCEPT !.format = "email", !.amount.frac = <<5>>]
Pdf == [File(b1, payee1, 12, 2) EXCEPT !.format = "pdf"]
\* A bill, a draft that has the key of the rules for its id, and a source without a vendor.
BillSources == {File(RulesKey, payee1, 7, 1), Email, [Pdf EXCEPT !.vendor = None]}
BillGrants == {{<<b2, 2>>}}
BillMatchers == {[vendor |-> payee1], [due |-> 2]}
BillWindows == {<<1, 2>>}
B == INSTANCE Bills WITH Procs <- BillProcs, Windows <- CalendarWindows, Statuses <- Marks

Bill(id, amount, due, status) == [id |-> id, vendor |-> payee1, amount |-> amount, due |-> due, status |-> status]
DraftOf(id, amount) == [id |-> id, vendor |-> payee2, amount |-> amount, due |-> 2]
TwoDrafts == <<DraftOf(b1, 3), DraftOf(b2, 4)>>
TaskPayloads ==
  {[op |-> "load"], [op |-> "drafts"], [op |-> "calendar", from |-> 1, to |-> 2, paid |-> FALSE],
   [op |-> "upsert", bill |-> Bill(b1, 6, 2, "due")], [op |-> "upsert", bill |-> Bill(b2, 7, 1, "due")],
   [op |-> "upsert", bill |-> Bill(b2, None, 1, "due")],
   [op |-> "mark_paid", id |-> b1], [op |-> "mark_status", id |-> b1, status |-> "skipped"],
   [op |-> "mark_status", id |-> b2, status |-> "unknown"],
   [op |-> "accept", drafts |-> TwoDrafts, accept |-> <<b1>>], [op |-> "accept", drafts |-> TwoDrafts, accept |-> <<b2, b2>>]}
OneBill == <<Bill(b1, 5, 1, "due")>>
TwoFiles == <<Pdf, File(b1, payee1, 5, 1)>>
R == INSTANCE Registry
ASSUME SharedFiles == L!ReleaseConstants /\ T!ThresholdConstants /\ B!BillsConstants

\* The variables of the parts a behaviour is not one of.
OffSql == Init /\ kind = "review"
OffRelease == clock = 0 /\ log = 0 /\ pub = 0 /\ heads = 0 /\ damage = 0 /\ raced = 0
OffThreshold == shares = 0 /\ accepted = 0
OffTree == table = 0 /\ proc = 0 /\ drafts = 0 /\ admitted = 0 /\ dirty = 0 /\ agenda = 0 /\ writes = 0
OffLegacy == file = 0 /\ work = 0 /\ asked = 0 /\ written = 0 /\ tasks = 0
OffEvidence == OffSql /\ OffRelease /\ OffThreshold
OffBills == OffTree /\ OffLegacy

MCInit ==
  \/ part = "sql" /\ Init /\ OffRelease /\ OffThreshold /\ OffBills
  \/ part = "release" /\ L!Init /\ OffSql /\ OffThreshold /\ OffBills
  \/ part = "threshold" /\ T!Init /\ OffSql /\ OffRelease /\ OffBills
  \/ part = "tree" /\ B!Init /\ OffLegacy /\ OffEvidence
  \/ part = "legacy" /\ R!Init /\ OffTree /\ OffEvidence
MCNext ==
  \/ part = "sql" /\ Next /\ UNCHANGED <<part, release, threshold, tree, legacy>>
  \/ part = "release" /\ L!Next /\ UNCHANGED <<part, sql, threshold, tree, legacy>>
  \/ part = "threshold" /\ T!Next /\ UNCHANGED <<part, sql, release, tree, legacy>>
  \/ part = "tree" /\ B!Next /\ UNCHANGED <<part, legacy, sql, release, threshold>>
  \/ part = "legacy" /\ R!Next /\ UNCHANGED <<part, tree, sql, release, threshold>>
MCSpec == MCInit /\ [][MCNext]_<<part, sql, release, threshold, tree, legacy>>

\* See Release and ThresholdSig: a pinned head pins the whole history, rotation never invalidates
\* what was released, and an accepted bundle has its quorum of eligible keys.
ReleaseTrustHolds ==
  CASE part = "release" -> L!TypeOK /\ L!PinnedHeadPinsHistory /\ L!ReleasesStayVerifiable
    [] part = "threshold" -> T!AcceptedHasQuorum
    [] OTHER -> TRUE
\* See Bills: nothing accepts itself, a rule that was replaced lets nothing in, and a calendar read
\* key by key is complete.
BillsHold == part = "tree" => B!OnlyAccepted /\ B!CalendarComplete
\* See Registry: nothing is in the file that no task asked for, and a verified task that was alone
\* changed what it named only.
RegistryHolds == part = "legacy" => R!OnlyAskedBills /\ R!OthersUntouched
=============================================================================

SPECIFICATION MCSpec
CONSTANTS
  Procs = {p, q}
  i1 = i1  i2 = i2  i3 = i3  r1 = r1  r2 = r2
  Resolutions = {r1, r2}  ItemOf <- ResolvedItem
  Kinds = {"review", "ledger", "chat"}
  Keys <- Contents  MaxTurns = 1  MaxCommits = 3  MaxSeq = 3
  Publishers = {p, q}
  Locks = {l, m}
  ReleaseKeys = {"j", "k"}
  ReleaseWindows <- Rotating
  Now = 2  MaxLog = 3  MaxDamage = 1
  Holders = {"i", "j", "k"}
  Eligible = {"i", "j"}
  Threshold = 2
  BillProcs = {p, q}
  Sources <- BillSources
  Grants <- BillGrants
  RuleIds = {1}
  Matchers <- BillMatchers
  CalendarWindows <- BillWindows
  Marks = {"paid", "unknown"}
  MaxWrites = 2  MaxDrafts = 2
  Runs = {p, q}
  Payloads <- TaskPayloads
  Initial <- OneBill
  Inbox <- TwoFiles
  Granted = {"load", "drafts", "calendar", "upsert", "mark_paid", "accept"}
  MaxTasks = 3  MaxBills = 3
  None = None  Refused = Refused  RulesKey = RulesKey
  Malformed = Malformed  Empty = Empty  Torn = Torn
  b1 = b1  b2 = b2  payee1 = payee1  payee2 = payee2
INVARIANTS RowsHold ReleaseTrustHolds BillsHold RegistryHolds
PROPERTY ImplementsReviewQueue
CHECK_DEADLOCK FALSE
SYMMETRY Symmetric

SPECIFICATION SpecDrivers
CONSTANTS
  None = None  Refused = Refused  task1 = task1  verifier1 = verifier1  kid1 = kid1  path1 = path1  path2 = path2
  StepLimit = 2  MaxVersion = 1  MaxLost = 1  MaxKept = 1
  KidSeq <- TripKids  Root = "root"  Value = {"v", "w"}  Path = {"p1", "p2"}
  MaxCalls <- TripCalls  Attempts = 2  Transports = {"inproc", "tcp"}
  MaxRows <- RowsOfSessions
  Directives <- MCDirectives
  Names <- RegisteredNames
  Accepts <- MCAccepts
  Importable <- Importables
  Artifacts <- MCArtifacts
  Denied <- MCDenied
  Paths <- LivePaths
  NumberOf <- MCNumberOf
  Truncated <- MCTruncated
INVARIANTS FaithfulReplay AnsweredIsRecorded PlanVerdict TripsBounded
PROPERTIES ReplayTouchesNothing WritesMoveOn
CHECK_DEADLOCK FALSE

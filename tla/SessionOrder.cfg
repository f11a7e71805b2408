SPECIFICATION Spec
CONSTANTS
  None = None  Refused = Refused  task1 = task1  verifier1 = verifier1  kid1 = kid1  path1 = path1  path2 = path2
  StepLimit = 2  MaxVersion = 1  MaxLost = 1  MaxKept = 2
  MaxRows <- RowsOfSessions
  Directives <- MCDirectives
  Names <- RegisteredNames
  Accepts <- MCAccepts
  Importable <- Importables
  Artifacts <- MCArtifacts
  Denied <- MCDenied
  Paths <- LivePaths
  NumberOf <- MCNumberOf
  Truncated <- MCTruncated
INVARIANT ReplaysInIssueOrder
CHECK_DEADLOCK FALSE

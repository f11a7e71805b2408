SPECIFICATION SpecRecords
CONSTANTS
  MaxClosure = 60
  Torn = Torn
  Garbled = Garbled
  Procs = {p, q}
  Indexers = {p}
  Closers = {q}
  Published <- MCPublished
  Extra <- MCExtra
  Versions <- MCVersions
  Available <- MCAvailable
  Queries <- MCQueries
  Shapes <- MCShapes
  MaxTears = 2
  MaxRows = 1
  Nothing = Nothing
  Bad = Bad
  Validators = {v, w}
  Contents <- SuiteContents
  Descriptors <- SuiteDescriptors
  Deployments = {"d"}
  TrustFiles = {"k"}
  TrustContents <- StoreContents
  Outcomes <- TaskOutcomes
  RUNS = 2
  SUPERMAJORITY = 1
  ThresholdNum = 1
  ThresholdDen = 1
  MaxEdits = 1
  MaxCrashes = 2
  MaxRestarts = 2
  VerdictCrashes = 1
  VerdictRestarts = 0
  LedgerEdits = 0
  Files = {f, g}
INVARIANTS LogKeepsFacts VerifiedRowsAreLogs CachedClosure VerdictsHold
SYMMETRY Symmetric
CHECK_DEADLOCK FALSE

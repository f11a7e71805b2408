SPECIFICATION SpecLegacy
CONSTANTS
    Tasks <- AllTasks
    Repeated <- RunAgain
    MaxFaults = 2
    MaxRuns = 2
    Backends = {"inproc", "subprocess"}
    MaxSends = 3
    MaxNoise = 1
    None = None
INVARIANTS
    ResultsHold
    SessionsHold
    ReadAsRecorded
PROPERTIES
    RecordsKept
    EveryRunReturns

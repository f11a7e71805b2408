CONSTANTS
    Caller = {a, b}
    MaxOps = 2
    Stop = Stop
    None = None
    NetNames = {"n1", "n2"}
    MaxTurns = 3
    MaxEntries = 2
    Replies <- MCReplies
    MaxRequests = 3
    MaxFailures = 1
    MaxStops = 2
SPECIFICATION SpecHosts
INVARIANTS CommandsHold StreamedOnce DiskKeepsState
PROPERTY CallsReturn
CHECK_DEADLOCK FALSE

CONSTANTS
    Caller = {a, b}
    MaxOps = 2
    Stop = Stop
    None = None
SPECIFICATION Spec
PROPERTIES
    SubmitReturns
CHECK_DEADLOCK FALSE

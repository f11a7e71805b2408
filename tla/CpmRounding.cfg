CONSTANTS Networks <- MCNetworks  Plans <- MCPlans  Bits = 2
SPECIFICATION Spec
INVARIANT EveryProjectHasACriticalPath
CHECK_DEADLOCK FALSE

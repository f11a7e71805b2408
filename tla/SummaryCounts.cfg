CONSTANTS Tasks <- MCTasks None = None
SPECIFICATION Spec
INVARIANT SummaryCountsExecutions
CHECK_DEADLOCK FALSE

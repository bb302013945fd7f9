CONSTANTS
    MaxEvents = 2
    QueueBound = 1
    MaxCrashes = 0
    ReportsNameOrder = FALSE
SPECIFICATION Spec
INVARIANT StrategyInStep
CHECK_DEADLOCK FALSE

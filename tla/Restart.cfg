CONSTANTS
    Parts = {"strategy", "references", "reconciliation", "history"}
    MaxEvents = 3
    QueueBound = 2
    MaxCrashes = 1
    ReportsNameOrder = TRUE
    Orders = {a, b}
    MaxSessions = 3
    MaxDeaths = 2
    MaxFaults = 1
    LastDay = 4
    Products = {"a", "b"}
    Deals = {"bought", "sold"}
    TradeOf <- MCTradeOf
    MaxFacts = 5
    MaxFailures = 1
SPECIFICATION RestartSpec
INVARIANT StrategyIsSound
INVARIANT FatesAreKept
INVARIANT AttributionIsSound
INVARIANT EnabledOnTruth
INVARIANT HistoryIsDurable
PROPERTY ImplementsPlain
CHECK_DEADLOCK FALSE

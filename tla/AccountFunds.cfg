CONSTANTS
    Orders = {"open1"}
    HeldYd = 0
    HeldTd = 0
    Resolved = {"open1"}
    MaxQty = 3
    LotFunds = 27
    LastDay = 1
    MaxCrashes = 0
    MaxCancels = 0
    OffsetOf <- MCOffsetOf
    Qty <- MCThree
    GateOrders = {"buy2", "buy1", "sell1"}
    GateTerms <- MCTerms
    HeldLong = 1
    MaxOpenLots = 3
    MaxPosition = 3
    MaxCancelled = 2
    Parts = {"kernel"}
    Instruments = {"a", "b"}
    Prices = {1, 3}
    Fee = 1
    LedgerDays = 3
    MaxTrades = 2
    MaxQuotes = 2
    MaxRevisions = 2
    Versions = {"v1", "v2"}
    Batches = {"q1", "q2"}
    EndDay = 2
    Services = {"s", "t"}
    Runtimes = {"r"}
    Settings = 1
    MaxRunning = 2
    MaxEpoch = 2
    Operators = {"op1", "op2"}
    HeldLots = 1
    MaxLots = 1
    MaxWaiting = 1
    MaxFacts = 2
    MaxTakeovers = 1
SPECIFICATION AccountSpec
INVARIANT FundsCoverExposure
CHECK_DEADLOCK FALSE

CONSTANTS
    Orders = {"open1", "today1"}
    HeldYd = 1
    HeldTd = 3
    Resolved = {"today1"}
    MaxQty = 2
    LotFunds = 4
    LastDay = 2
    MaxCrashes = 1
    MaxCancels = 1
    OffsetOf <- MCOffsetOf
    Qty <- MCQty
    GateOrders = {"buy2", "buy1", "sell1"}
    GateTerms <- MCTerms
    HeldLong = 1
    MaxOpenLots = 3
    MaxPosition = 3
    MaxCancelled = 1
    Parts = {"kernel", "gate", "ledger", "day", "programs", "controls"}
    Instruments = {"a", "b"}
    Prices = {1, 3}
    Fee = 1
    LedgerDays = 3
    MaxTrades = 2
    MaxQuotes = 2
    MaxRevisions = 2
    Versions = {"v1", "v2"}
    Batches = {"q1", "q2"}
    EndDay = 2
    Services = {"s", "t"}
    Runtimes = {"r"}
    Settings = 1
    MaxRunning = 2
    MaxEpoch = 2
    Operators = {"op1", "op2"}
    HeldLots = 1
    MaxLots = 1
    MaxWaiting = 1
    MaxFacts = 2
    MaxTakeovers = 1
SPECIFICATION AccountSpec
INVARIANT BooksAgree
INVARIANT ReservationsFit
INVARIANT OrdersAreSafe
INVARIANT DayIsSound
INVARIANT AssemblyIsSound
INVARIANT RestrictionsHold
PROPERTY LedgerIsSound
CHECK_DEADLOCK FALSE

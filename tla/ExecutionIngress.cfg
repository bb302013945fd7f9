CONSTANTS
    Commands = {"order1", "take1"}
    Events = {"push1", "query1", "bad1"}
    TradeKeys = {"trade1"}
    None = None
    MarketCapacity = 1
    TradeBatch = 2
    QueueBound = 1
    MaxEpoch = 1
    MaxCrashes = 1
    MaxFailures = 1
    MaxDrops = 0
    CommandKind <- MCCommandKind
    EventKind <- MCEventKind
    TradeKeyOf <- MCTradeKeyOf
SPECIFICATION FairSpec
INVARIANT TradesBookedOnce
INVARIANT ViewIsCommitted
PROPERTY CommandsAreProcessed
PROPERTY FactsAreBooked
CHECK_DEADLOCK FALSE

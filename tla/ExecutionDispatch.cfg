CONSTANTS
    Commands = {"order1", "take1", "take2"}
    Events = {"tick1"}
    TradeKeys = {"trade1"}
    None = None
    MarketCapacity = 1
    TradeBatch = 1
    QueueBound = 0
    MaxEpoch = 2
    MaxCrashes = 2
    MaxFailures = 1
    MaxDrops = 1
    CommandKind <- MCCommandKind
    EventKind <- MCEventKind
    TradeKeyOf <- MCTradeKeyOf
SPECIFICATION Spec
INVARIANT AtMostOneCall
INVARIANT NoOrphanDispatch
INVARIANT DispatchInv
INVARIANT ReadyIsReconciled
PROPERTY FencedCalls
PROPERTY EpochOnlyByTakeover
PROPERTY ImplementsLifecycle
CHECK_DEADLOCK FALSE

CONSTANTS
    StrategyTimeout = 1
    ExecutionTimeout = 1
    MaxBeats = 1
    MaxRestarts = 1
    MaxEpoch = 2
    Size = 3
    MaxRetries = 3
    BarsPerDay = 2
    OpenFirst = FALSE
    RiskRefuses = TRUE
    Executors = {e}
    MaxTransactions = 3
    MaxSnapshots = 1
SPECIFICATION SupervisionSpec
INVARIANT ApplicationsAreSound
INVARIANT RollIsSound
INVARIANT StoreIsOneHistory
PROPERTY LostIsRequested
PROPERTY RollEndsMoved

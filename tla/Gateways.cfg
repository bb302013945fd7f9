CONSTANTS
    Authenticated = TRUE
    UnusualCallbacks = TRUE
    MaxFrontEvents = 3
    MaxErrors = 1
    MaxSlow = 1
    Sessions <- MCSessions
    Interval = 3
    MaxGap = 2
    MaxAge = 1
    PriceAt <- MCPriceAt
    QueueSize = 1
    Horizon = 5
    JoinBy = 1
    MaxOdd = 1
    None = None
SPECIFICATION GatewaysSpec
INVARIANT BarsAreTrue
PROPERTY OnlyTheRaceReopens
PROPERTY SessionRecovers
PROPERTY FalseBarPauses
CHECK_DEADLOCK FALSE

CONSTANTS
    Parts = {"backtest"}
    Writers = {w1, w2}
    Readers = {r}
    Offers <- MCOffers
    Retirements <- MCRetirements
    MaxDownloads = 0
    MaxPrice = 2
    Contracts = {"x", "y", "z"}
    OpeningPrice <- MCOpeningPrice
    ClosingPrice <- MCClosingPrice
    ConfirmDays = 1
    MaxDays = 5
    MaxMissing = 0
    MaxLots = 0
    MaxOrders = 0
    Ids = {1}
    MaxTime = 1
    Intents = {"a1", "b1", "a2"}
    Policies = {"next bar", "next session"}
    MayDefer = TRUE
    OrderDelay = 2
    CancelDelay = 0
    Volumes = {1, 2}
    Wakeups = {2}
    Bars <- MCBars
    Shapes <- MCShapes
    Sessions <- MCSessions
    Terms <- MCTerms
    Limits <- MCLimits
    Tick = 1
    Slippage = 1
    CrossOneTick = FALSE
    BothSides = FALSE
SPECIFICATION ResearchSpec
INVARIANT NoLookAhead
CHECK_DEADLOCK FALSE

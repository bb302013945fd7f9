CONSTANTS
    Parts = {"backtest", "store", "prices", "routing", "rules", "dominant", "calendar", "gaps"}
    Writers = {w1, w2}
    Readers = {r}
    Offers <- MCOffers
    Retirements <- MCRetirements
    MaxDownloads = 3
    MaxPrice = 6
    Contracts = {"x", "y", "z"}
    OpeningPrice <- MCOpeningPrice
    ClosingPrice <- MCClosingPrice
    ConfirmDays = 2
    MaxDays = 5
    MaxMissing = 3
    MaxLots = 2
    MaxOrders = 2
    Ids = {1, 2, 3, 4}
    MaxTime = 2
    Intents = {"a1", "b1", "a2"}
    Policies = {"next bar", "next session"}
    MayDefer = TRUE
    OrderDelay = 2
    CancelDelay = 2
    Volumes = {1, 2}
    Wakeups = {2}
    Bars <- MCBars
    Shapes <- MCShapes
    Sessions <- MCSessions
    Terms <- MCTerms
    Limits <- MCLimits
    Tick = 1
    Slippage = 1
    CrossOneTick = FALSE
    BothSides = FALSE
SPECIFICATION ResearchSpec
SYMMETRY Alike
INVARIANT BacktestIsFair
INVARIANT PublishedIsTraceable
INVARIANT RulesAreFound
INVARIANT MappingIsCausal
INVARIANT SessionsAreSound
INVARIANT RoutesAreWhole
PROPERTY ImplementsAtomicStore
CHECK_DEADLOCK FALSE

CONSTANTS
    Authenticated = FALSE
    UnusualCallbacks = FALSE
    MaxFrontEvents = 2
    MaxErrors = 0
    MaxSlow = 0
SPECIFICATION Spec
PROPERTY OrdersNeedReconciledSession
CHECK_DEADLOCK FALSE

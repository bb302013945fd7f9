SPECIFICATION Spec
CONSTANTS
    Size = 2
    MaxRetries = 2
    BarsPerDay = 2
    OpenFirst = TRUE
    RiskRefuses = TRUE
PROPERTY CompletedIsMoved

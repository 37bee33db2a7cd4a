SPECIFICATION OperationsSpec
CONSTANTS
    ReservationText <- MCReservationText
    SkuText <- MCSkuText
    TrimSpace <- MCTrimSpace
    Blank = ""
    Quantities <- MCQuantities
    StockLevels <- MCStockLevels
    Seed <- MCSeed
    MaxInt = 7
    Requests <- AllRequests
    MaxTimeouts = 0
    MaxRejects = 1
    MaxLosses = 1
    MaxRetryCount = 1
    MaxSends = 2
    MaxModeChanges = 0
    MaxStockChanges = 0
    MaxShutdowns = 0
    MaxLateDeliveries = 1
    MaxCrashes = 1
    SettingsUsed <- NoSettings
    Callers <- OneCaller
    RequeueRequests <- MCRequeueRequests
    MaxRequeueLimit = 2
    MaxAdminTimeouts = 0
    MaxAdminRejects = 1
    MaxAdminLosses = 1
    MaxCount = 2
    Nobody = Nobody
    c1 = c1
    c2 = c2
INVARIANTS
    NothingLost
    OutcomesBacked
    NeverOversold
    MessagesAreMoved
    CountedIsPublished
CHECK_DEADLOCK FALSE

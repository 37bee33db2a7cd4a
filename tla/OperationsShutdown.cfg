SPECIFICATION FairOperations
CONSTANTS
    ReservationText <- MCReservationText
    SkuText <- MCSkuText
    TrimSpace <- MCTrimSpace
    Blank = ""
    Quantities <- MCQuantities
    StockLevels <- MCStockLevels
    Seed <- MCSeed
    MaxInt = 7
    Requests <- OneReserve
    MaxTimeouts = 0
    MaxRejects = 0
    MaxLosses = 0
    MaxRetryCount = 1
    MaxSends = 1
    MaxModeChanges = 1
    MaxStockChanges = 0
    MaxShutdowns = 1
    MaxLateDeliveries = 1
    MaxCrashes = 0
    SettingsUsed <- PublishFailure
    Callers <- MCCallers
    RequeueRequests <- RequeueReservations
    MaxRequeueLimit = 2
    MaxAdminTimeouts = 1
    MaxAdminRejects = 0
    MaxAdminLosses = 0
    MaxCount = 2
    Nobody = Nobody
    c1 = c1
    c2 = c2
INVARIANTS
    OperationsTypeOK
    NothingLost
    MessagesAreMoved
    GetIsAnswered
    CountersBacked
PROPERTIES
    CallsReturn
CHECK_DEADLOCK FALSE

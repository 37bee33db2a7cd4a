SPECIFICATION FairService
CONSTANTS
    ReservationText <- MCReservationText
    SkuText <- MCSkuText
    TrimSpace <- MCTrimSpace
    Blank = ""
    Quantities <- MCQuantities
    StockLevels <- MCStockLevels
    Seed <- MCSeed
    MaxInt = 7
    Requests <- ReserveReleaseGarbled
    MaxTimeouts = 2
    MaxRejects = 0
    MaxLosses = 0
    MaxRetryCount = 1
    MaxSends = 2
    MaxModeChanges = 1
    MaxStockChanges = 1
    MaxShutdowns = 0
    MaxLateDeliveries = 1
    MaxCrashes = 0
    SettingsUsed <- Trouble
    Callers <- NoCallers
    RequeueRequests <- MCRequeueRequests
    MaxRequeueLimit = 2
    MaxAdminTimeouts = 0
    MaxAdminRejects = 0
    MaxAdminLosses = 0
    MaxCount = 0
    Nobody = Nobody
    c1 = c1
    c2 = c2
INVARIANTS
    ServiceTypeOK
    NoRequestLost
    OutcomesAgree
    RetriesAreCounted
PROPERTIES
    RequestsSettle
CHECK_DEADLOCK FALSE

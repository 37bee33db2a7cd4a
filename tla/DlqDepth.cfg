SPECIFICATION OperationsSpec
CONSTANTS
    ReservationText <- MCReservationText
    SkuText <- MCSkuText
    TrimSpace <- MCTrimSpace
    Blank = ""
    Quantities <- MCQuantities
    StockLevels <- MCStockLevels
    Seed <- MCSeed
    MaxInt = 7
    Requests <- ReserveAndGarbled
    MaxTimeouts = 0
    MaxRejects = 0
    MaxLosses = 0
    MaxRetryCount = 1
    MaxSends = 1
    MaxModeChanges = 0
    MaxStockChanges = 0
    MaxShutdowns = 0
    MaxLateDeliveries = 1
    MaxCrashes = 0
    SettingsUsed <- NoSettings
    Callers <- OneCaller
    RequeueRequests <- MCRequeueRequests
    MaxRequeueLimit = 2
    MaxAdminTimeouts = 0
    MaxAdminRejects = 0
    MaxAdminLosses = 0
    MaxCount = 0
    Nobody = Nobody
    c1 = c1
    c2 = c2
PROPERTIES
    DepthIsReported
CHECK_DEADLOCK FALSE

SPECIFICATION FairSpec
CONSTANTS
    ReservationText <- MCReservationText
    SkuText <- MCSkuText
    TrimSpace <- MCTrimSpace
    Blank = ""
    Quantities <- MCQuantities
    StockLevels <- MCStockLevels
    Seed <- MCSeed
    MaxInt = 7
    Requests <- TwoReserves
    MaxTimeouts = 0
    MaxRejects = 0
    MaxLosses = 1
    MaxRetryCount = 1
    MaxSends = 1
    MaxModeChanges = 0
    MaxStockChanges = 0
    MaxShutdowns = 0
    MaxLateDeliveries = 1
    MaxCrashes = 0
    SettingsUsed <- NoSettings
PROPERTY
    RequestsSettle
CHECK_DEADLOCK FALSE

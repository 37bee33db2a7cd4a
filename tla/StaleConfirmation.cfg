SPECIFICATION Spec
CONSTANTS
    ReservationText <- MCReservationText
    SkuText <- MCSkuText
    TrimSpace <- MCTrimSpace
    Blank = ""
    Quantities <- MCQuantities
    StockLevels <- MCStockLevels
    Seed <- MCSeed
    MaxInt = 7
    Requests <- TwoReserves
    MaxTimeouts = 1
    MaxRejects = 1
    MaxLosses = 0
    MaxRetryCount = 1
    MaxSends = 2
    MaxModeChanges = 0
    MaxStockChanges = 0
    MaxShutdowns = 0
    MaxLateDeliveries = 1
    MaxCrashes = 0
    SettingsUsed <- NoSettings
INVARIANT
    NoRequestLost
CHECK_DEADLOCK FALSE

SPECIFICATION Spec
CONSTANTS
    ReservationText <- MCReservationText
    SkuText <- MCSkuText
    TrimSpace <- MCTrimSpace
    Blank = ""
    Quantities <- MCQuantities
    StockLevels <- MCStockLevels
    Seed <- MCSeed
    MaxInt = 7
    Requests <- Conflicting
    MaxTimeouts = 0
    MaxRejects = 0
    MaxLosses = 0
    MaxRetryCount = 1
    MaxSends = 2
    MaxModeChanges = 0
    MaxStockChanges = 0
    MaxShutdowns = 0
    MaxLateDeliveries = 1
    MaxCrashes = 0
    SettingsUsed <- NoSettings
INVARIANT
    RejectedAreDiscarded
CHECK_DEADLOCK FALSE

SPECIFICATION InventorySpec
CONSTANTS
    ReservationText <- MCReservationText
    SkuText <- MCSkuText
    TrimSpace <- MCTrimSpace
    Blank = ""
    Quantities <- MCQuantities
    StockLevels <- MCStockLevels
    Seed <- MCSeed
    MaxInt = 3
INVARIANT
    StockNonNegative

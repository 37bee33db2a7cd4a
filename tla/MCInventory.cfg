SPECIFICATION InventorySpec
CONSTANTS
    ReservationText <- MCReservationText
    SkuText <- MCSkuText
    TrimSpace <- MCTrimSpace
    Blank = ""
    Quantities <- MCQuantities
    StockLevels <- MCStockLevels
    Seed <- MCSeed
    MaxInt = 8
    MaxStock = 2
    MaxQuantity = 2
INVARIANTS
    TypeOK
    CapacityInv
    ReservedMatchesActive
    StockNonNegative
    ActiveIsReleasable
PROPERTIES
    ReservationsAreFinal
    TransfersConserveStock

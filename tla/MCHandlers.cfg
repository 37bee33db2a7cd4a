SPECIFICATION HandlersSpec
CONSTANTS
    ReservationText <- MCReservationText
    SkuText <- MCSkuText
    TrimSpace <- MCTrimSpace
    Blank = ""
    Quantities <- MCQuantities
    StockLevels <- MCStockLevels
    Seed <- MCSeed
    MaxInt = 7
    MaxStock = 2
    MaxQuantity = 2
    Requests <- MCRequests
INVARIANTS
    HandlersTypeOK
    ReservationsConfirmedOnce
    ReleasesAnsweredOnce
    StoresAgree
    OnlyClientErrors
PROPERTIES
    DecisionsAreFinal

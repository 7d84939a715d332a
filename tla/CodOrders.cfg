\* One product, lines of one or two units, at most three units ever in stock.
CONSTANTS
    k1 = k1
    k2 = k2
    x1 = x1
    Keys <- MCKeys
    Sales <- MCSales
    Skus = {s1}
    MaxQty = 2
    StockCap = 3
SPECIFICATION Spec
SYMMETRY KeySymmetry
INVARIANTS
    TypeOK
    NoOversell
    ReservationsFollowOrders
    DeliveryNeverShort
    StockConserved
    CashMatchesDelivery
PROPERTIES
    FinalStatesStay
    KeepsStockPromise
CHECK_DEADLOCK FALSE

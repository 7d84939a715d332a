\* Two orders and a sale compete for one unit of each of two products, and for
\* each other's locks.
CONSTANTS
    k1 = k1
    k2 = k2
    x1 = x1
    Nobody = Nobody
    Keys <- MCTwoKeys
    Sales <- MCOneSale
    Skus <- MCTwoSkus
    MaxQty = 1
    StockCap = 1
SPECIFICATION FairSpec
INVARIANTS
    TypeOK
    StockConserved
PROPERTIES
    FinalStatesStay
    KeepsStockPromise
    EveryTransactionEnds
CHECK_DEADLOCK FALSE

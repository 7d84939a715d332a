\* A packed pickup order is to be handed out.
CONSTANTS
    k1 = k1
    k2 = k2
    x1 = x1
    Keys <- MCKeys
    Sales <- MCSales
    Skus = {s1}
    MaxQty = 2
    StockCap = 3
SPECIFICATION Spec
SYMMETRY KeySymmetry
INVARIANTS
    PickupNeedsNoAssignment
CHECK_DEADLOCK FALSE

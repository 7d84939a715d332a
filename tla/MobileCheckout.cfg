\* One telephone.
CONSTANTS
    t1 = t1
    s1 = s1
    s2 = s2
    f1 = f1
    Skus <- MCTwoSkus
    Clients = {t1}
    Forms = {f1}
    MaxQty = 1
    MaxUnits = 2
    MaxCarts = 2
    MaxKeys = 2
SPECIFICATION FairSpec
INVARIANTS
    ConflictOnlyAfterExtras
    NothingMissing
PROPERTIES
    HeardInTheEnd
CHECK_DEADLOCK FALSE

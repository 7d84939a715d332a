\* An order worth two points and two sales worth one, redeemed at two tills.
CONSTANTS
    c1 = c1
    o1 = o1
    x1 = x1
    x2 = x2
    t1 = t1
    t2 = t2
    r1 = r1
    r2 = r2
    Orders = {o1}
    Clerks <- MCClerks
    Customers = {c1}
    Sales <- MCSales
    Tills <- MCTills
    Keys = {k1}
    NoKey = NoKey
    CustomerOf <- MCCustomerOf
    TotalOf <- MCTotalOf
    NprPerPoint = 2
    MinPoints = 1
    MaxPoints = 2
SPECIFICATION Spec
SYMMETRY Symmetry
INVARIANTS
    TypeOK
    LedgerRunsAlong
    SourceEarnsOnce
    KeyRedeemsOnce
PROPERTIES
    ReversalTakesWhatIsLeft
CHECK_DEADLOCK FALSE

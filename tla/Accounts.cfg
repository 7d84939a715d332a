CONSTANTS
    c1 = c1
    c2 = c2
    p1 = p1
    p2 = p2
    g1 = g1
    j1 = j1
    j2 = j2
    Phones <- MCTwoPhones
    Calls = {c1}
    Subjects = {}
    Phone = phone
    MaxAttempts = 1
    MaxResends = 1
    MaxCodes = 2
    Joins = {j1, j2}
    Capacity = 1
    Nobody = nobody
SPECIFICATION FairSpec
INVARIANTS
    FoundersAreVerified
    FoundersNumbered
    NoPlaceLost
PROPERTIES
    JoinEnds
CHECK_DEADLOCK FALSE

\* Two calls and two codes; the founding campaign sleeps, for nobody may join.
CONSTANTS
    c1 = c1
    c2 = c2
    p1 = p1
    p2 = p2
    g1 = g1
    j1 = j1
    j2 = j2
    Phones <- MCTwoPhones
    Calls <- MCTwoCalls
    Subjects = {g1}
    Phone = phone
    MaxAttempts = 2
    MaxResends = 2
    MaxCodes = 2
    Joins = {}
    Capacity = 1
    Nobody = nobody
SPECIFICATION Spec
SYMMETRY Symmetry
INVARIANTS
    TypeOK
    CodeSignsInOnce
    AttemptsBounded
    AccountSignsInOne
    VerifiedBeforeSession
CHECK_DEADLOCK FALSE

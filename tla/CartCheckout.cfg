\* Two requests and one editor over two carts; lines of one or two units.
CONSTANTS
    q1 = q1
    q2 = q2
    q3 = q3
    k1 = k1
    k2 = k2
    c1 = c1
    c2 = c2
    e1 = e1
    e2 = e2
    s1 = s1
    Skus = {s1}
    Keys <- MCTwoKeys
    Stock <- MCStock
    Requests <- MCTwoRequests
    Editors = {e1}
    Carts <- MCTwoCarts
    MaxQty = 2
    MaxRows = 2
SPECIFICATION Spec
SYMMETRY Symmetry
INVARIANTS
    TypeOK
    OneOrderPerCart
    AnswerIsForTheCart
PROPERTIES
    OrderIsCartAsConverted
    RepeatIsRecognised
CHECK_DEADLOCK FALSE

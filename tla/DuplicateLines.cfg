\* Two additions of the same product to one cart run at the same time.
CONSTANTS
    q1 = q1
    q2 = q2
    q3 = q3
    k1 = k1
    k2 = k2
    c1 = c1
    c2 = c2
    e1 = e1
    e2 = e2
    s1 = s1
    Skus = {s1}
    Keys <- MCTwoKeys
    Stock <- MCStock
    Requests = {q1}
    Editors <- MCTwoEditors
    Carts = {c1}
    MaxQty = 2
    MaxRows = 2
SPECIFICATION Spec
INVARIANTS
    NoOversell
CHECK_DEADLOCK FALSE

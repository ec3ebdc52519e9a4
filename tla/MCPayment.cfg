CONSTANTS
    o1 = o1  o2 = o2  Nil = Nil
    c1 = c1  c2 = c2  c3 = c3  c4 = c4
    Calls = {c1, c2, c3, c4}
    Orders = {o1, o2}
    Charges <- MCCharges
    Limit = 2
SPECIFICATION Spec
SYMMETRY CallSymmetry
INVARIANTS
    TypeOK
    MoneyIsAccounted
    SuccessIsPaid
CHECK_DEADLOCK FALSE

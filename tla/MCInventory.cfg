CONSTANTS
    o1 = o1  o2 = o2  o3 = o3  o4 = o4  o5 = o5
    k1 = k1  k2 = k2  NoKey = NoKey
    p1 = p1  p2 = p2  p3 = p3  Nil = Nil
    c1 = c1  c2 = c2  c3 = c3  c4 = c4
    Calls = {c1, c2, c3, c4}
    Orders = {o1, o2, o3, o4, o5}
    Keys = {k1, k2}
    Requests <- MCRequests
    InitialStock <- MCStock
    Half = 8
SPECIFICATION Spec
SYMMETRY CallSymmetry
INVARIANTS
    TypeOK
    StockConserved
    StockNeverNegative
    OneReservationPerKey
    SuccessIsHeld
CHECK_DEADLOCK FALSE

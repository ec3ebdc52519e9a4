CONSTANTS
    k1 = k1  NoKey = NoKey  Nil = Nil
    o1 = o1  o2 = o2  o3 = o3  u1 = u1  u2 = u2
    Orders = {o1, o2, o3}
    Updates = {u1, u2}
    Keys = {k1}
    Requests <- MCRequests
SPECIFICATION Spec
SYMMETRY IdSymmetry
INVARIANTS
    TypeOK
    SameKeySameOrder
    AnsweredOrderExists
    NoKeyNoSharing
CHECK_DEADLOCK FALSE

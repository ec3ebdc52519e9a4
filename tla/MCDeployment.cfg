CONSTANTS
    a = a  g = g  Nil = Nil
    Posts = {a}
    Gets = {g}
    Key <- MCKey
    Env <- MCEnv
    Loads <- MCLoads
SPECIFICATION FairSpec
INVARIANTS
    TypeOK
    CallsReachTheirService
    HandlerSeesItsRequest
    OneCallAtATime
PROPERTIES
    ImplementsUnaryCall
    EveryCallReturns
CHECK_DEADLOCK FALSE

CONSTANTS
    Runs = {r1}
    N = 3
    MaxMissed = 0
SPECIFICATION Spec
INVARIANT
    FailedRowListsEveryError
CHECK_DEADLOCK FALSE

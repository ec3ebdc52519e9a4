CONSTANTS
    Runs = {r1, r2}
    N = 3
    MaxMissed = 6
SPECIFICATION FairSpec
INVARIANTS
    TypeOK
    CompensationIsLifo
    NothingLeftHalfway
    RowsInOrder
    RowsAreTrue
    LogLagsByOneStep
PROPERTIES
    EverySagaEnds
    ImplementsContract
CHECK_DEADLOCK FALSE

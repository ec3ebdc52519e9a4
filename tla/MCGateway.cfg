CONSTANTS
    r1 = r1  r2 = r2  r3 = r3  r4 = r4  r5 = r5  r6 = r6
    k1 = k1  k2 = k2  NoKey = NoKey  p1 = p1  Nil = Nil
    Runs = {r1, r2, r3, r4, r5, r6}
    Body <- MCBody
    Batches <- MCBatches
    Keys = {k1, k2}
    ProductIds = {p1}
    InitialStock <- OneUnit
    Limit = 2
    Half = 2
    MaxMissed = 0
SPECIFICATION FairSpec
INVARIANTS
    TypeOK
    CompletedIsKept
    FailedLeavesNothing
    EffectsMatchOrder
    ExactlyOncePerKey
    AcceptedIsVisible
PROPERTIES
    FinalStatusStays
    EveryOrderSettles
    ComponentsAsSpecified
CHECK_DEADLOCK FALSE

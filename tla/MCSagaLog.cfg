CONSTANTS
    w1 = w1  w2 = w2  w3 = w3  s1 = s1  s2 = s2  Nil = Nil
    Writers = {w1, w2, w3}
    Sagas = {s1, s2}
    SagaOf <- MCSagaOf
    Base = 2
    MaxTime = 5
    MaxRows = 3
SPECIFICATION Spec
SYMMETRY WriterSymmetry
INVARIANTS
    TypeOK
    LatestWithinASecond
    TimesSurvive
CHECK_DEADLOCK FALSE

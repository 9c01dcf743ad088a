CONSTANTS
    Main = Main
    SubThreads = {t1, t2}
    Vars = {x1, x2}
    Nobody = Nobody
    MaxMainOps = 2
    MaxOps = 1
    Programs = {}
SPECIFICATION Spec
CHECK_DEADLOCK FALSE
INVARIANTS
    TypeOK
    NoCircularWait
    SnapshotWhole
    LookupComplete
PROPERTY
    EveryThreadEnds

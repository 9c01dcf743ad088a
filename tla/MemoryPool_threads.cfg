CONSTANTS
    Main = Main
    SubThreads = {t1, t2}
    Small = {s1, s2}
    Large = {g1}
    Heap = {h1, h2}
    Private = 1
    MaxCount = 2
    MaxItems = 2
SYMMETRY Symmetry
SPECIFICATION Spec
CHECK_DEADLOCK FALSE
INVARIANTS
    TypeOK
    OneOwner
    MemoryExact
    CountExact
    NeverFreedInUse

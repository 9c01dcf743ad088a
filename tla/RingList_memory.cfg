CONSTANTS
    Blocks = {b1, b2, b3, b4, b5, b6}
    Values = {v1}
    NULL = NULL
    MaxSizeWithoutListCache = 6
    MaxMoved = 2
    MaxHeld = 1
    MayUseThreads = TRUE
SYMMETRY Symmetry
SPECIFICATION Spec
INVARIANTS
    ItemFound
    MemoryExact
CHECK_DEADLOCK FALSE

CONSTANTS
    Blocks = {b1, b2, b3, b4, b5}
    Values = {v1, v2}
    NULL = NULL
    MaxSizeWithoutListCache = 2
    MaxMoved = 2
    MaxHeld = 0
    MayUseThreads = FALSE
SYMMETRY Symmetry
SPECIFICATION Spec
INVARIANTS
    TypeOK
    LinksAgree
    CacheCoherent
PROPERTY
    ListSeqSpec

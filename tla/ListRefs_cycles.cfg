CONSTANTS
    Lists = {l1, l2, l3}
    Vars = {v1, v2}
    Size = 2
    NULL = NULL
    Programs = {}
SYMMETRY Symmetry
SPECIFICATION Spec
INVARIANTS
    TypeOK
    NoDangling
    NoGarbage
    CountExact
PROPERTY
    OthersKeepItems

CONSTANTS
    Vars = {v1, v2, v3}
    Lists = {l1, l2}
    Size = 2
    Heap = {h1, h2, h3}
    NULL = NULL
    Programs = {}
SYMMETRY Symmetry
SPECIFICATION Spec
INVARIANTS
    TypeOK
    NoDangling
    CountExact
PROPERTY
    MovedTogether

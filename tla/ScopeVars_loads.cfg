CONSTANTS
    Params <- MCNoParams
    Attributes = {"v"}
    Instructions <- MCVariables
    CacheSize = 0
    IdLimit = 3
    MaxScopes = 3
    MaxTries = 1
    Lists = {a1, a2, a3}
    None = None
    Attribute = Attribute
    Programs = {}
SPECIFICATION Spec
SYMMETRY Symmetry
INVARIANTS
    LoadIsLookup
    KeptAlive

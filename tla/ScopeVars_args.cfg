CONSTANTS
    Params <- MCParams
    Attributes = {}
    Instructions <- MCArguments
    CacheSize = 3
    IdLimit = 3
    MaxScopes = 3
    MaxTries = 1
    Lists = {a1, a2, a3, a4, a5}
    None = None
    Attribute = Attribute
    Programs = {}
SPECIFICATION Spec
SYMMETRY Symmetry
INVARIANTS
    TypeOK
    LoadIsLookup
    CacheExact
    SlotsDistinct

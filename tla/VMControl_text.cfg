CONSTANTS
    Steps = {1}
    MaxNest = 2
    MaxOps = 1
    MaxTry = 2
    MaxCalls = 2
    MaxStack = 2
    lCheckLoopAndExit = TRUE
    Programs = {}
SPECIFICATION Spec
CHECK_DEADLOCK FALSE
INVARIANTS
    TypeOK
    MarksMatchLoops
    StepsMatchLoops
PROPERTIES
    ControlStackSpec

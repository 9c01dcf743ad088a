CONSTANTS
    Steps = {1}
    MaxNest = 1
    MaxOps = 1
    MaxTry = 2
    MaxCalls = 2
    MaxStack = 2
    lCheckLoopAndExit = TRUE
    Programs = {"return_in_try"}
SPECIFICATION Spec
CHECK_DEADLOCK FALSE
PROPERTIES
    CaughtByOpenTry

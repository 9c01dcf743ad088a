CONSTANTS
    Steps = {1}
    MaxNest = 1
    MaxOps = 2
    MaxTry = 2
    MaxCalls = 2
    MaxStack = 3
    lCheckLoopAndExit = FALSE
    Programs = {"exit_in_callee", "exit_nonnumber", "raise"}
SPECIFICATION Spec
CHECK_DEADLOCK FALSE
INVARIANTS
    TriesMatch
    ScopesMatch
    OperandsKept
    WithinArrays
    MarksPaired

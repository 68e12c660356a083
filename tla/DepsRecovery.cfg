SPECIFICATION Spec
CONSTANTS
    Node <- MCNode
    Output <- MCOutput
    DepLists <- MCDepLists
    Mtimes = {1, 2}
    MaxCalls = 3
    MaxProcesses = 3
INVARIANTS
    NoInventedDeps
    UnsharedDepsSurvive
    MemoryIsLatest
CHECK_DEADLOCK FALSE

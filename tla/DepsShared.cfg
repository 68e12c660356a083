SPECIFICATION Spec
CONSTANTS
    Node <- MCNode
    Output <- MCOutput
    DepLists <- MCDepLists
    Mtimes = {1, 2}
    MaxCalls = 2
    MaxProcesses = 1
INVARIANTS
    NewDataIsRecorded
CHECK_DEADLOCK FALSE

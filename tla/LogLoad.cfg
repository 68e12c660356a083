SPECIFICATION Spec
CONSTANTS
    OutputsOf <- TwoEdges
    MayFail = FALSE
    MaxRecords = 2
    MaxCloses = 0
    MaxProcesses = 2
INVARIANTS
    LogIsLoaded
CHECK_DEADLOCK FALSE

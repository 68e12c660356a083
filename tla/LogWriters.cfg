SPECIFICATION Spec
CONSTANTS
    OutputsOf <- TwoEdges
    MayFail = TRUE
    MaxRecords = 2
    MaxCloses = 1
    MaxProcesses = 2
PROPERTIES
    OneHeader
INVARIANTS
    AckedIsWritten
    NoClosedFile
CHECK_DEADLOCK FALSE

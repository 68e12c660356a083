SPECIFICATION Spec
CONSTANTS
    Size = 3
    Edge <- EdgeNumbers
    Graphs <- AllGraphs
    Phonies <- AtMostOnePhony
    Targets <- OneTarget
    Ids <- AnyNumbering
INVARIANTS
    HighestPriorityFirst

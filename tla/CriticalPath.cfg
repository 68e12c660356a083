SPECIFICATION Spec
CONSTANTS
    Size = 4
    Edge <- EdgeNumbers
    Graphs <- AllGraphs
    Phonies <- AtMostOnePhony
    Targets <- UpToTwoTargets
    Ids <- Numbered
INVARIANTS
    WeightIsHeaviestPath

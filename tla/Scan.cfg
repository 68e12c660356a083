SPECIFICATION FairSpec
CONSTANTS
    Edge = {"a", "b", "c"}
    Node = {"oa", "ob", "ob2", "oc", "x", "h"}
    Phony = {"c"}
    Generator = {"a"}
    Outs <- Outputs
    Nil = "nil"
    Graphs <- AllGraphs
INVARIANTS
    VerdictIsSolution
    PlanIsReachable
    CycleIsReal
    PlannedIsScanned
PROPERTIES
    Ends
CHECK_DEADLOCK FALSE

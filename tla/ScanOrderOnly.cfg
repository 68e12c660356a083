SPECIFICATION Spec
CONSTANTS
    Edge = {"a", "b", "c"}
    Node = {"oa", "ob", "ob2", "oc", "x", "h"}
    Phony = {"c"}
    Generator = {"a"}
    Outs <- Outputs
    Nil = "nil"
    Graphs <- DepsGraphs
INVARIANTS
    DepsDirtyTheirEdge
CHECK_DEADLOCK FALSE

SPECIFICATION Spec
CONSTANTS
    Edge = {"a", "b", "c"}
    Node = {"oa", "ob", "ob2", "oc", "x", "h"}
    Phony = {"c"}
    Generator = {"a"}
    Outs <- Outputs
    Nil = "nil"
    Graphs <- ClaimGraphs
INVARIANTS
    ValidationsArePlanned
    MissingDepIsNoError
CHECK_DEADLOCK FALSE

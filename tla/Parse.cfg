SPECIFICATION Spec
CONSTANTS
    Var <- Vars
    Atom <- Atoms
    Programs <- AllManifests
    Args <- CommandLines
    Negative <- Negatives
    PhonyCycleAction = "warn"
    MaxDepth = 3
INVARIANTS
    NodesAgreeWithEdges
    SubninjaContained
    RootsReachAll

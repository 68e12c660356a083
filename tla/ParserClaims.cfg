SPECIFICATION Spec
CONSTANTS
    Var <- Vars
    Atom <- Atoms
    Programs <- ClaimManifests
    Args <- NoArgs
    Negative <- Negatives
    PhonyCycleAction = "warn"
    MaxDepth = 3
INVARIANTS
    SelfReferenceIgnored
    KindsFit
    BindingOrder

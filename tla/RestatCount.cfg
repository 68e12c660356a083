SPECIFICATION Spec
CONSTANTS
    Manifest <- RestatJoin
    Edge <- MCEdge
    Node <- MCNode
    Pool <- MCPool
    Ins <- MCIns
    OrderOnly <- MCOrderOnly
    Outs <- MCOuts
    OutEdges <- MCOutEdges
    PoolOf <- MCPoolOf
    Depth <- DepthOne
    Phony <- MCPhony
    Generator <- MCGenerator
    Recorded <- MCGenerator
    Restat <- MCRestat
    DepsTyped <- MCDepsTyped
    Targets <- MCTargets
    Parallelism = 2
    LoadLimited = FALSE
    Headroom = {0}
    FailuresAllowed = 2
    DryRun = FALSE
    Faults = {}
INVARIANTS
    WantedCount

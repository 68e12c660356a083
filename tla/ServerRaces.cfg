SPECIFICATION Spec
CONSTANTS
    k1 = k1
    k2 = k2
    Root = root
    Key = {k1, k2}
    CommandOf <- Commands
    OutputHashOf <- OutputHashes
    HasDeps = {k1}
    DurationOf <- Durations
    Unit = 1000
    Limit = 1
    Parts = 2
    Client = {c1, c2}
    Cleaner = {g1, g2}
    MaxTime = 1
    MaxUploads = 3
    MaxCrashes = 1
INVARIANTS
    RowsFileIsWhole
    SuccessIsStored
SYMMETRY Symmetry
CHECK_DEADLOCK FALSE

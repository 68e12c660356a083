SPECIFICATION FairSpec
CONSTANTS
    Output = {a, b}
    Hash = {old, new}
    None = None
    Parts = 2
    MaxLookups = 3
    MaxCrashes = 2
INVARIANTS
    OutputIsWhole
PROPERTIES
    NilKeepsOutput
    LookupEndsOrAwaits
CHECK_DEADLOCK FALSE

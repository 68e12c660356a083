SPECIFICATION Spec
CONSTANTS
    Output = {a, b}
    Hash = {old, new}
    None = None
    Parts = 2
    MaxLookups = 1
    MaxCrashes = 0
PROPERTIES
    OverwrittenByItsFile
CHECK_DEADLOCK FALSE

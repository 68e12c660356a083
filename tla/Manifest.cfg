SPECIFICATION Spec
CONSTANTS
    Version <- Versions
    Worlds <- AllWorlds
    CycleLimit = 4
INVARIANTS
    LoadedIsOnDisk
    ManifestIsCurrent
    GivesUpOnlyIfEdited

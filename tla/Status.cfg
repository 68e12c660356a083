SPECIFICATION Spec
CONSTANTS
    Edge <- Three
    OfManifest <- Two
    UseConsole <- Console
    InputCount <- OneInput
    Logged <- LogOfA
    Percent <- NoEdges
    Noisy <- NoEdges
    Verbosities <- NormalAndQuiet
    Formats <- FewFormats
    Parallelism = 2
    MaxRebuilds = 1
    MaxAgain = 1
    MaxTime = 1
INVARIANTS
    NothingLost
    CountersAgree

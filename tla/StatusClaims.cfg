SPECIFICATION Spec
CONSTANTS
    Edge <- Three
    OfManifest <- OnlyA
    UseConsole <- Console
    InputCount <- OneInput
    Logged <- LogOfA
    Percent <- OnlyA
    Noisy <- OnlyA
    Verbosities <- Normal
    Formats <- Default
    Parallelism = 2
    MaxRebuilds = 0
    MaxAgain = 0
    MaxTime = 0
INVARIANTS
    UnknownIsUnpredictable
    OutputIntact
    OutputReported

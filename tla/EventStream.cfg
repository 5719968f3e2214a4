SPECIFICATION IntakeFairSpec
CONSTANTS
    Flushes <- MCFlushes
    MaxEvents = 2
    MaxFaults = 2
    MaxExits = 2
    Files = {f, g}
    Algorithms <- MCAlgorithms
    MaxLoad = 5
    MaxMixed = 2
INVARIANTS
    NothingSkipped
    CleanIsSaved
    IndexSound
PROPERTIES
    ImplementsEventLog
    EventuallyTakenIn
    AddedIsSaved
CHECK_DEADLOCK FALSE

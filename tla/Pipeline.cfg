SPECIFICATION FairSpec
CONSTANTS
    Paths <- MCPaths
    Hashes <- MCHashes
    NoHash = NoHash
    Supported <- MCSupported
    MaxEvents = 2
    MaxResets = 1
INVARIANTS
    TypeOK
    LightOwned
    DoneMeansOver
    HashStageClaimed
    CompletedOnce
    CountersOrdered
PROPERTIES
    EventuallyDone
CHECK_DEADLOCK FALSE

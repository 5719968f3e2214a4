SPECIFICATION FairSpec
CONSTANTS
    Paths <- MCPaths
    Hashes <- MCHashes
    HashOf <- MCDistinct
    Plugins <- MCBackground
    PluginOrder <- MCBackgroundOrder
    QueueOf <- MCBackgroundQueue
    DependsOn <- MCNoDependencies
    Slots <- MCOneSlot
    Concurrency <- MCConcurrency
    MaxRounds = 1
    MaxClears = 0
    Operations = {}
    Unstable = {}
    PostsMayFail = FALSE
    Reports = {"completed", "failed"}
PROPERTIES
    EveryFileCompletes
CHECK_DEADLOCK FALSE

SPECIFICATION Spec
CONSTANTS
    Paths <- MCPaths
    Hashes <- MCHashes
    HashOf <- MCDistinct
    Plugins <- MCPlugins
    PluginOrder <- MCOrder
    QueueOf <- MCQueueOf
    DependsOn <- MCDependsOn
    Slots <- MCOneSlot
    Concurrency <- MCConcurrency
    MaxRounds = 1
    MaxClears = 0
    Operations = {}
    Unstable = {}
    PostsMayFail = FALSE
    Reports = {"completed", "failed"}
INVARIANTS
    DrainedMeansDone
CHECK_DEADLOCK FALSE

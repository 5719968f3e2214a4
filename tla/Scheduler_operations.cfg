SPECIFICATION Spec
CONSTANTS
    Paths <- MCPaths
    Hashes <- MCHashes
    HashOf <- MCDistinct
    Plugins <- MCPlugins
    PluginOrder <- MCOrder
    QueueOf <- MCQueueOf
    DependsOn <- MCDependsOn
    Slots <- MCOneSlot
    Concurrency <- MCConcurrency
    MaxRounds = 1
    MaxClears = 1
    Operations = {"recompute", "cancel", "gate", "pause"}
    Unstable <- MCUnstable
    PostsMayFail = FALSE
    Reports = {"completed", "failed"}
INVARIANTS
    NoLeakedSlot
PROPERTIES
    BackgroundYields
    AnnouncedOnlyWhenOver
CHECK_DEADLOCK FALSE

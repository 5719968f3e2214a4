SPECIFICATION FairSpec
CONSTANTS
    Paths <- MCThreePaths
    Hashes <- MCHashes
    HashOf <- MCCopyAndOther
    Plugins <- MCPlugins
    PluginOrder <- MCOrder
    QueueOf <- MCQueueOf
    DependsOn <- MCDependsOn
    Slots <- MCOneSlot
    Concurrency <- MCConcurrency
    MaxRounds = 1
    MaxClears = 0
    Operations = {}
    Unstable = {}
    PostsMayFail = TRUE
    Reports = {"completed", "failed", "skipped", "other"}
INVARIANTS
    TypeOK
    FilesInFlightCapped
    SlotCoversTasks
    CounterExact
    StagedWillFlush
PROPERTIES
    ImplementsSemaphores
    AnnouncedOnlyWhenOver
    EveryFileCompletes
CHECK_DEADLOCK FALSE

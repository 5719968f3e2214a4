SPECIFICATION FairSpec
CONSTANTS
    Plugins <- MCPlugins
    Count <- MCCount
    NameHolds <- MCNames
    Requests <- MCRequests
    Ids <- MCIds
    Versions <- MCVersions
    Given <- MCGiven
    Loaded <- MCLoaded
    Files <- MCFiles
    MaxRequests = 2
    MaxFaults = 1
    MaxExits = 2
    MaxEvents = 2
INVARIANTS
    Settled
    ConfigSaved
PROPERTIES
    CallsEnd
CHECK_DEADLOCK FALSE

SPECIFICATION Spec
CONSTANTS
    Plugins <- MCPlugins
    Offers <- MCOffers
    Graphs <- MCGraphs
    Configs <- MCConfigs
    Pages = {p1, p2}
    Files <- MCFiles
    NoEntry = NoEntry
    Unreadable = Unreadable
    Hashes = {h1, h2}
    MaxTasks = 2
    MaxRequests = 2
    MaxExits = 1
    MaxFaults = 1
    MaxResets = 1
    MaxEvents = 3
SYMMETRY MCSymmetry
INVARIANTS
    OrderSound
    
    Accounted
CHECK_DEADLOCK FALSE

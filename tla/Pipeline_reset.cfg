SPECIFICATION Spec
CONSTANTS
    Paths <- MCPaths
    Hashes <- MCHashes
    NoHash = NoHash
    Supported <- MCSupported
    MaxEvents = 2
    MaxResets = 1
INVARIANTS
    ResetForgets
CHECK_DEADLOCK FALSE

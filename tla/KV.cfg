SPECIFICATION KVFairSpec
CONSTANTS
    Leaders = {a, b}
    NoLeader = NoLeader
    Published = {a}
    Lookers <- MCLookers
    MaxChanges = 2
    MaxRequests = 1
    MaxFaults = 1
    MaxRemovals = 1
    MaxExits = 1
    MaxEvents = 3
    Writers <- MCWriters
    Spelling <- MCSpelling
    Stored <- MCStored
    Keys <- MCKeys
    Values <- MCValues
    MaxWrites = 2
    MaxMixed = 2
INVARIANTS
    FollowsLeader
    ClientsAccounted
PROPERTIES
    EntryMatchesProcess
    RecordsKept
CHECK_DEADLOCK FALSE

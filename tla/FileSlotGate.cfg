SPECIFICATION FairSpec
CONSTANTS
    Files = {f1, f2, f3, f4}
    Capacity = 2
INVARIANTS
    CapacityBound
    NoLostWakeUp
    OnePlace
PROPERTIES
    ImplementsSemaphore
    EveryoneAdmitted
    FirstComeFirstServed
CHECK_DEADLOCK TRUE

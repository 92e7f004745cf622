SPECIFICATION FairSpec
CONSTANTS
    Count = 3
    Original = {1,2}
    Directories = {1}
    Workers = {w1}
    Leased = {o1}
    Requests = {o2}
    NoLock = NoLock
    Gone = Gone
    MaxCrashes = 2
    MaxFaults = 2
    MaxRollbacks = 0
INVARIANTS
    OriginalKept
PROPERTIES
    KeepsPromise
    UpdateEnds

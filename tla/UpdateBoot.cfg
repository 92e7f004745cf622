SPECIFICATION Spec
CONSTANTS
    Count = 2
    Original = {1}
    Directories = {1}
    Workers = {w1, w2}
    Leased = {}
    Requests = {}
    NoLock = NoLock
    Gone = Gone
    MaxCrashes = 1
    MaxFaults = 0
    MaxRollbacks = 0
INVARIANTS
    WholeRelease

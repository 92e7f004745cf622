SPECIFICATION Spec
CONSTANTS
    Count = 2
    Original = {1}
    Directories = {1}
    Workers = {w1}
    Leased = {o1,o3}
    Requests = {o2}
    NoLock = NoLock
    Gone = Gone
    MaxCrashes = 0
    MaxFaults = 2
    MaxRollbacks = 1
INVARIANTS
    MarkerCoversUpdate
PROPERTIES
    OperationsFinish

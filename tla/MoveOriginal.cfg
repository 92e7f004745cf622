SPECIFICATION Spec
CONSTANTS
    Apps = {"a1", "a2"}
    Injected = {"a2"}
    Workers = {"w"}
    Crons = {"c"}
    OwnerOf <- MCOwnerOf
    MaxTroubles = 0
INVARIANTS
    MovedMeansMoved
CHECK_DEADLOCK FALSE

SPECIFICATION FairSpec
CONSTANTS
    Apps = {"a1", "a2"}
    Injected = {"a2"}
    Workers = {"w"}
    Crons = {"c"}
    OwnerOf <- MCOwnerOf
    MaxTroubles = 3
INVARIANTS
    
    BackOnOriginal
    EverythingBack
PROPERTIES
    MoveEnds
CHECK_DEADLOCK FALSE

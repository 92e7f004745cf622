SPECIFICATION FairSpec
CONSTANTS
    Workers = {w1, w2}
    MaxFaults = 2
    MaxHands = 1
INVARIANTS
    FailureRestores
    AcceptedStays
    DomainsReached
PROPERTIES
    FilesChangeAlone
    LoopEnds
CHECK_DEADLOCK FALSE

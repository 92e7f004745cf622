SPECIFICATION Spec
CONSTANTS
    N = 3
INVARIANTS
    PhaseTellsTree
    JournalCoversEveryMove
PROPERTIES
    KeepsRelease
    NothingLost
CHECK_DEADLOCK FALSE

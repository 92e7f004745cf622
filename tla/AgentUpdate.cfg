SPECIFICATION FairUpdateSpec
CONSTANTS
    MaxUpdate = 2
    MaxLosses = 1
    MaxEnds = 2
    MaxSequence = 2
INVARIANTS
    UpdateExcludesJob
    Recoverable
PROPERTIES
    VerdictIsInstalled
    WorkResumes
CHECK_DEADLOCK FALSE

SPECIFICATION FairSpec
CONSTANTS
    Deployments = {d1, d2}
    Operations = {o1}
    NoOne = NoOne
    MaxRestarts = 1
    MaxFaults = 1
INVARIANTS
    OneAtWork
    LockHasItsUser
    LoopOwnsItsRow
PROPERTIES
    CancelHasTheLastWord
    RowSettles

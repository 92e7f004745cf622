SPECIFICATION FairSpec
CONSTANTS
    Jobs = {"j1", "j2"}
    Services = {"a", "b"}
    SourceOf <- MCSourceOf
    TargetOf <- MCTargetOf
    Staged = {"j2"}
    NoService = NoService
    Rows = {1, 2}
    FirstRows <- MCFirstRows
    FirstPrimary = "b"
    MaxEvents = 1
INVARIANTS
    RemovedIsQuiet
    CopiesApart
    NamedServicesExist
PROPERTIES
    SuccessIsACopy
    JobEnds
CHECK_DEADLOCK FALSE

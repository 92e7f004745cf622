SPECIFICATION FairSpec
CONSTANTS
    Jobs = {"j1", "j2"}
    First = "r0"
    Nothing = Nothing
    Off = Off
    NotYet = NotYet
    NoJournal = NoJournal
    NoReport = NoReport
    MaxFaults = 2
    MaxCrashes = 1
    MaxTimer = 1
INVARIANTS
    RegistryIsTrue
PROPERTIES
    NeverReplayed
    VerdictIsTrue
    JobSettles
CHECK_DEADLOCK FALSE

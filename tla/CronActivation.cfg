SPECIFICATION FairSpec
CONSTANTS
    Projects = {1, 2}
    Deployments = {"d1"}
    Jobs = {"j2"}
    Callers = {"c1", "c2"}
    ProjectOf <- MCProjectOf
    RootOf <- SharedRoot
    FirstProject <- MCFirstProject
    LegacyRoot = "rootA"
    NoProject = NoProject
    Nobody = Nobody
    NoJob = NoJob
    MaxRestarts = 1
    MaxFaults = 1
INVARIANTS
    ActivationExcludesJobs
    JobRunsOnce
    NoLockCycle
PROPERTIES
    DeploymentEnds
CHECK_DEADLOCK FALSE

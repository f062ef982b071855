SPECIFICATION FairSpec
CONSTANTS
    j1 = j1
    j2 = j2
    j3 = j3
    None = None
    Jobs <- MCThree
    Cpus <- MCThreeCpus
    FillJobs = {}
    Workers = 2
    PoolCpus = 2
    Priorities = {0, 2}
    HighAbove = 1
    MediumAbove = 0
    AgeBoost = 1
    MaxPriority = 2
    UpdateSteps = {"RUNNING", "COMPLETED"}
    PromptReports = TRUE
    MaxCrashes = 0
INVARIANTS
    ActiveSetExact
    Conservation
    ServicesMatch
    SnapshotsAreCurrent
PROPERTIES
    LoopServes

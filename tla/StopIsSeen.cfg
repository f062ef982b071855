SPECIFICATION FairSpec
CONSTANTS
    j1 = j1
    j2 = j2
    j3 = j3
    None = None
    Jobs <- MCJobs
    Cpus <- MCCpus
    FillJobs = {}
    Workers = 2
    PoolCpus = 2
    Priorities = {0, 2}
    HighAbove = 1
    MediumAbove = 0
    AgeBoost = 1
    MaxPriority = 3
    UpdateSteps = {"RUNNING", "COMPLETED", "FAILED"}
    PromptReports = TRUE
    MaxCrashes = 0
PROPERTY
    StopIsSeen

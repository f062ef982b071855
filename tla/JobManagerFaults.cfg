SPECIFICATION DeleteSpec
CONSTANTS
    j1 = j1
    j2 = j2
    j3 = j3
    None = None
    Jobs <- MCJobs
    Cpus <- MCCpus
    FillJobs = {j2}
    Workers = 2
    PoolCpus = 2
    Priorities = {0}
    HighAbove = 1
    MediumAbove = 0
    AgeBoost = 1
    MaxPriority = 1
    UpdateSteps = {"RUNNING", "COMPLETED", "STOPPED"}
    PromptReports = FALSE
    MaxCrashes = 2
INVARIANTS
    Conservation
    ExecutingJobsHoldCpus

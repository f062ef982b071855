SPECIFICATION FairSpec
CONSTANTS
    j1 = j1
    j2 = j2
    forcing = forcing
    config = config
    out1 = out1
    out2 = out2
    None = None
    Absent = Absent
    Bare = Bare
    Never = Never
    Jobs <- MCJobs
    Inputs <- MCInputs
    Outputs <- MCOutputs
    OutputOf <- MCOutputOf
    Kinds = {"forcing", "config"}
    KindOf <- MCKindOf
    Needs <- MCNeeds
    Derivable = {"config"}
    Stores <- MCStores
    MaxTime = 1
    MaxRemoved = 1
    MaxRestarts = 1
    MaxLost = 1
INVARIANTS
    UsageMatchesLinks
    JobsKeepTheirData
PROPERTIES
    DatasetsStay
    
CHECK_DEADLOCK FALSE

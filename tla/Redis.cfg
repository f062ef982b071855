SPECIFICATION Redis
CONSTANTS
    manager = manager
    partitioner = partitioner
    dataCheck = dataCheck
    provision = provision
    Users <- MCUsers
    Processes <- MCProcesses
    NoLock = NoLock
    Orphan = Orphan
    MaxCrashes = 2
    big = big
    small = small
    c1 = c1
    c2 = c2
    i1 = i1
    i2 = i2
    i3 = i3
    Clients <- MCClients
    Resources <- MCResources
    Total <- MCTotal
    AskCpus = {1, 2}
    AskMemory = {1}
    AllocIds <- MCIds
INVARIANTS
    ExclusiveUnlessOverrun
    Conservation
PROPERTIES
    TimelyUnlockFreesOwnLock
    SomebodyEnters
    ReleaseEnds
    CallsAreAtomic

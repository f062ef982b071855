SPECIFICATION Calculations
CONSTANTS
    n1 = n1
    n2 = n2
    n3 = n3
    j1 = j1
    j2 = j2
    Nodes <- MCNodes
    Total <- MCTotal
    Jobs <- MCJobs
    AskCpus = {2, 4}
    AskMemory = {1, 3}
    lowFlow = lowFlow
    highFlow = highFlow
    Locations <- MCLocations
    Levels = {0, 1, 2}
    MaxPairs <- MCMaxPairs
    Thresholds <- MCThresholds
    Cut <- MCCut
    ThresholdWeight <- MCThresholdWeight
    ThresholdLists <- MCThresholdLists
    Schemes <- MCSchemes
    MetricWeight <- MCMetricWeight
SYMMETRY Symmetric
INVARIANTS
    Conservation
    ServesWhatFits
    FullMarksForPerfection
    LostHitsNeverPay
CHECK_DEADLOCK FALSE

SPECIFICATION Spec
CONSTANTS
    None = None
    Datasets = {ds}
    Items = {file, nested}
    InFolders = {nested}
    Offered <- MCOffered
    Points <- MCPoints
    cat1 = cat1
    cat2 = cat2
    Values = {cat1, cat2}
    ContinuousIndices <- MCContinuousIndices
    DiscreteIndices <- MCDiscreteIndices
    Formats <- MCFormats
    Families <- MCFamilies
    MaxFailures = 2
    MaxCrashes = 1
INVARIANTS
    AcceptedDatasetsStay
    GivenDataIsClaimed
    BucketsAreManaged
    OffersAreSound
PROPERTIES
    AddsClaimExactly
CHECK_DEADLOCK FALSE

SPECIFICATION FairSpec
CONSTANTS
    b1 = b1
    b2 = b2
    b3 = b3
    r1 = r1
    r2 = r2
    NoBundle = NoBundle
    Bundles <- ThreeBundles
    Routes <- TwoRoutes
    MaxGraph = 1
    GraphBytes <- UnitBytes
    MaxRetiredCount = 1
    MaxRetiredBytes = 2
    MaxMaintenance = 1
    CudaEnabled = FALSE
INVARIANTS
    RetirementLimitsHold
PROPERTIES
    PublicationCompletes

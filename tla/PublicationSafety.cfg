SPECIFICATION Spec
CONSTANTS
    b1 = b1
    b2 = b2
    b3 = b3
    r1 = r1
    r2 = r2
    NoBundle = NoBundle
    Bundles <- ThreeBundles
    Routes <- TwoRoutes
    MaxGraph = 2
    GraphBytes <- UnitBytes
    MaxRetiredCount = 1
    MaxRetiredBytes = 2
    MaxMaintenance = 2
    CudaEnabled = TRUE
SYMMETRY Symmetric
INVARIANTS
    PointerNamesCurrentGraph
    LeasedBundleOnDisk
PROPERTIES
    StartupRemovesAbandoned
    RefinesRoutingView

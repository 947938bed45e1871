SPECIFICATION FairSpec
CONSTANTS
    b1 = b1
    b2 = b2
    b3 = b3
    r1 = r1
    r2 = r2
    NoBundle = NoBundle
    Bundles <- TwoBundles
    Routes <- OneRoute
    MaxGraph = 1
    GraphBytes <- TwoByteBundles
    MaxRetiredCount = 1
    MaxRetiredBytes = 1
    MaxMaintenance = 1
    CudaEnabled = FALSE
PROPERTIES
    PublicationCompletes

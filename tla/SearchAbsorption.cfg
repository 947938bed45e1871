CONSTANTS
    None = None
    Disabled = Disabled
    Unlimited = Unlimited
    Precision = 2
    MaxFinite = 100
    BucketBound = 64
    Algorithms = {0, 1, 2}
    Graphs <- ChainGraphs
    Configs <- ChainConfigs
    Fans <- NoFans
    Requests <- ChainRequests
SPECIFICATION RouteSpec
INVARIANT CudaSharesExactDistances

CONSTANTS
    None = None
    Disabled = Disabled
    Unlimited = Unlimited
    Precision = 3
    MaxFinite = 14
    BucketBound = 12
    Algorithms = {0, 1, 2}
    Graphs <- MCGraphs
    Configs <- MCConfigs
    Fans <- MCFans
    Requests <- MCRequests
SPECIFICATION RouteSpec
INVARIANTS
    BundleIsFaithful
    AnswersAreRight
    NoInternalError
    PredecessorIsStable
    ReservationSuffices
PROPERTY SearchTerminates

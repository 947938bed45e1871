SPECIFICATION FairSpec
CONSTANTS
    c1 = c1
    c2 = c2
    c3 = c3
    s1 = s1
    s2 = s2
    i1 = i1
    i2 = i2
    i3 = i3
    None = None
    Calls <- TwoCalls
    Closers <- OneCloser
    Ids <- OneId
    Sizes <- Estimates
    MaxActive = 2
    MaxBytes = 2
    MaxMaintenance = 1
PROPERTIES
    ShutdownCompletes
CHECK_DEADLOCK FALSE

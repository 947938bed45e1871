SPECIFICATION Spec
CONSTANTS
    c1 = c1
    c2 = c2
    c3 = c3
    s1 = s1
    s2 = s2
    i1 = i1
    i2 = i2
    i3 = i3
    None = None
    Calls <- ThreeCalls
    Closers <- TwoClosers
    Ids <- ThreeIds
    Sizes <- Estimates
    MaxActive = 2
    MaxBytes = 2
    MaxMaintenance = 1
SYMMETRY Symmetric
INVARIANTS
    AccountingIsExact
    RegistryIsExact
    ShutDownIsComplete
PROPERTIES
    ClosingIsFinal
CHECK_DEADLOCK FALSE

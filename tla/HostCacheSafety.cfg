SPECIFICATION FairSpec
CONSTANTS
    c1 = c1
    c2 = c2
    c3 = c3
    w1 = w1
    w2 = w2
    Partitions <- ThreePartitions
    Size <- ThreeSizes
    Clients <- ThreeClients
    Workers <- TwoWorkers
    MaxBytes = 4
    MaxStaging = 3
    MaxEntries = 2
    MaxQueued = 1
PROPERTIES
    LoadsSettle
    PoolStops
INVARIANTS
    LoadsAreCoalesced
    CacheAccounting
PROPERTIES
    PoisonIsTerminal

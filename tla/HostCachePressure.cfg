SPECIFICATION Spec
CONSTANTS
    c1 = c1
    c2 = c2
    c3 = c3
    w1 = w1
    w2 = w2
    Partitions <- FourPartitions
    Size <- MixedSizes
    Clients <- TwoClients
    Workers <- OneWorker
    MaxBytes = 4
    MaxStaging = 2
    MaxEntries = 2
    MaxQueued = 1
INVARIANTS
    PressureNeverFails

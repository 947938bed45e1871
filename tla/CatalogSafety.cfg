SPECIFICATION Spec
CONSTANTS
    Batches <- SmallBatches
    Selections <- SmallSelections
    MaxBatch = 3
    LastId <- SmallLastId
INVARIANTS
    ReopenAccepts
    LookupsMatchDurable
    PointerNamesThisGraph
PROPERTIES
    ImplementsConfirmedGraph

SPECIFICATION Spec
CONSTANTS
    Operators = {o1, o2}
    Database <- MCDatabase
    CheckpointRoot <- MCCheckpointRoot
    RestoreRoot <- MCRestoreRoot
    Destinations <- MCDestinations
    FileCount = 3
    CurrentFile = 3
    MaxCheckpoints = 1
    MaxCommits = 3
    None = None
SYMMETRY OperatorSymmetry
INVARIANTS
    CheckpointIsAsReported
    CheckpointIsDurable
    RestoreIsTheCheckpoint

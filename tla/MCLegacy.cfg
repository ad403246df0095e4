SPECIFICATION Spec
CONSTANTS
    Token = {"a", "b"}
    Prompts <- Branches
    Full = 8
    Wide = 4
    Batch = 2
    Environments <- Processes
    Layers <- Kinds
    PackedBytes <- Bytes
    MaxCheckpoints = 3
    Budget = 100
    StateBytes = 4
    RowBytes = 1
    Output = 1
INVARIANTS
    IndexFindsLongest
    CheckpointsComplete
    ReplayEquivalent
    RestorePointKept
    PayloadCounted
    ChunksStopAtBoundaries
    ChunksServed
    RowsHandedOver
    OwnWeights

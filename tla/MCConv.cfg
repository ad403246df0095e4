SPECIFICATION Spec
CONSTANTS
    Kernel = 4
    Tile = 8
    Prompts <- ThreeTiles
    MaxLength = 24
    Graph = {TRUE, FALSE}
INVARIANTS
    TypeOK
    RingFollowsSequence
    CheckpointSound
    MisreadIsConfined
PROPERTY
    WarmStepsReadHistory

SPECIFICATION Spec
CONSTANTS
    a = a
    b = b
    Token = {a, b}
    Garbage = Garbage
    NoFile = NoFile
    NoCall = NoCall
    Capacity = 6
    Tile = 2
    MinPersist = 2
    MaxNew = 3
    Prompt <- AllPrompts
    Options <- ChatOptions
    Faults = {"crash"}
    Checked = TRUE
INVARIANTS
    TypeOK
    LogitsHaveHidden
    CheckpointResumable
PROPERTY
    ImplementsCompletion

SPECIFICATION Spec
CONSTANTS
    a = a
    b = b
    Token = {a, b}
    Garbage = Garbage
    NoFile = NoFile
    NoCall = NoCall
    Capacity = 4
    Tile = 2
    MinPersist = 2
    MaxNew = 1
    Prompt <- Conversation
    Options <- ServeOptions
    Faults = {}
    Checked = TRUE
INVARIANT
    LogitsHaveHidden

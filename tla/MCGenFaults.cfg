SPECIFICATION FairSpec
CONSTANTS
    a = a
    b = b
    Token = {a, b}
    Garbage = Garbage
    NoFile = NoFile
    NoCall = NoCall
    Capacity = 3
    Tile = 2
    MinPersist = 2
    MaxNew = 2
    Prompt <- ThreePrompts
    Options <- FaultOptions
    Faults = {"fail"}
    Checked = FALSE
INVARIANT
    ColdCallsIndependent
PROPERTIES
    WarmFailureTearsNothing
    CallReturns

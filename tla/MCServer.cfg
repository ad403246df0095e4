SPECIFICATION Spec
CONSTANTS
    Client = {c1, c2, c3}
    QueueCapacity = 2
    NoClient = NoClient
SYMMETRY Symmetry
INVARIANTS
    TypeOK
    OneOwner
    AnsweredOnce
    FirstComeFirstServed
CHECK_DEADLOCK FALSE

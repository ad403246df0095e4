SPECIFICATION Spec
CONSTANTS
    Client = {c1, c2}
    QueueCapacity = 1
    NoClient = NoClient
PROPERTIES
    EveryConnectionEnds
    ShutdownCompletes
CHECK_DEADLOCK FALSE

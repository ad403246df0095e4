CONSTANTS
    a = a
    b = b
    Token = {a, b}
    Blocks = 1
    LayersPerBlock = 4
    Capacity = 4
    Tile = 2
    Kernel = 2
    Fragment = 2
    SuffixSplits = 3
    FragmentSplits = 3
    Formats <- MCFormats
    OlderCapacity = 2
    Setups <- MCSetups
SYMMETRY Swap
SPECIFICATION EitherSpec
INVARIANTS
    EngineTypeOK
    TilesHoldSequence
    StepsHoldSequence
    ProfiledLayersAgree
    ReplayIsStep
PROPERTY RefinesReference

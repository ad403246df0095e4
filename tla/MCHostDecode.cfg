CONSTANTS
    a = a
    b = b
    Token = {a, b}
    Blocks = 1
    LayersPerBlock = 4
    Capacity = 4
    Tile = 2
    Kernel = 2
    Fragment = 2
    SuffixSplits = 3
    FragmentSplits = 3
    Formats <- MCFormats
SYMMETRY Swap
SPECIFICATION HostSpec
INVARIANT LogitsFollowSequence

SPECIFICATION Spec
CONSTANTS
    Kernel = 4
    Tile = 8
    Prompts <- ThreeTiles
    MaxLength = 22
    Graph = {TRUE}
INVARIANT
    TilesAreSeamless

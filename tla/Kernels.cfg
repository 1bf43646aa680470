CONSTANTS
    Dim = 1
    Tile <- MCTile
    ActWaves = 3
    Gemv <- MCGemv
    Square = 2
    Chunks = 2
    Gtile = 2
    MoeBN = 2
    MaxWarps = 4
    MoeGemv <- MCMoeGemv
    NWarps = 2
    TileRows = 2
    Threads = 4
    Chunk = 2
    Warps = 2
    Taps = 2
    HeadWaves = 2
    Groups <- MCGroups
    CodeOf <- MCCode
    Wanted <- MCWanted
SPECIFICATION Spec
INVARIANTS TypeOK NoRace ReadsMeant NobodyStranded OutputsOnce

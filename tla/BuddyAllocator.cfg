CONSTANTS
    Regions = {1, 2, 3}
    Stride = 20
    DescSize = 1
    MinChunk = 4
    MaxChunk = 13
    Requests = {3, 4, 12}
    Index = 1
    FreeIdle = TRUE
    SizeMod = 128
SPECIFICATION BuddySpec
INVARIANTS
    BlocksTile
    PoolIsFreeBlocks
    HoldersDisjoint
    BestFit
    MemoryAccounted

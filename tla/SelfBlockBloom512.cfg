SPECIFICATION Spec
CONSTANTS
    U32 = 32
    I31 = 16
    ByteBits = 4
    BlockBytes = 2
    Keys <- MCKeys
    Sizes = {0, 9, 140}
    MaxHashes = 4
    MaxKeys = 2
INVARIANTS InBounds BlocksReachableTo4GB
PROPERTY ImplementsApproxSet

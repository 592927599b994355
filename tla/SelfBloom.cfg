SPECIFICATION Spec
CONSTANTS
    U32 = 32
    I31 = 16
    ByteBits = 4
    Keys <- MCKeys
    Requests = {1, 15, 16}
    Elements = {2, 4}
    MaxKeys = 2
INVARIANTS InBounds EveryBitReachable
PROPERTY ImplementsApproxSet

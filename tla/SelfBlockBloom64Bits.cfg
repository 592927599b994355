SPECIFICATION Spec
CONSTANTS
    U32 = 64
    I31 = 32
    LineBits = 16
    WordBits = 8
    IntBits = 4
    Keys <- MCKeys
    Sizes = {0, 17}
    MaxHashes = 3
    MaxKeys = 2
INVARIANT BitPerPosition

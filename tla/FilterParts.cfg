SPECIFICATION PartsSpec
CONSTANTS
    U32 = 64
    I31 = 32
    LineBits = 16
    WordBits = 8
    IntBits = 4
    Keys <- MCKeys
    Sizes = {0, 17}
    MaxHashes = 3
    MaxKeys = 2
    UInt = 16
    HashPairs <- MCHashPairs
    Shapes <- MCShapes
    MaxAdded = 2
    FullData <- MCFullData
    DataSizes = {2, 3}
    NumProbes = 4
    Successful = 1
    StepSize = 2
    NumTrials = 2
INVARIANTS NoFalseNegatives AssertionsHold LatencyCounts
PROPERTIES ImplementsApproxSet AddReportsPresence ThroughputExact

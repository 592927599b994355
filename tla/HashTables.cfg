SPECIFICATION TablesSpec
CONSTANTS
    Keys = {"a", "b", "c", "d", "e"}
    None = "none"
    Seeds = {0, 3}
    H1 <- MCH1
    H2 <- MCH2
    kWidth = 4
    LoadDivisor = 2
    KeptCapacity = 3
    BucketCounts = {0, 1, 5}
    MaxCapacity = 15
    SwissKeys = {"a", "b", "c", "d"}
    Hashes <- MCHashes
    Truncated = 4
    Loads <- MCLoads
    DistLimit = 2
    MaxMatches = 3
    IntLimit = 8
    Counts = {0, 3}
    MaxBuckets = 8
    DenseKeys = {"a", "b", "c", "d"}
    Delkey = "deleted"
    DenseHashes <- MCDenseHashes
    MinBuckets = 4
    StartBuckets = 4
    Shrink = 20
    Grows <- MCGrows
    Requests = {0, 3}
    MaxDenseBuckets = 16
INVARIANTS TableLookupsExact TableAccounting ClonesAgree TableAssertionsHold RobinHoodOrder GuaranteedFindsPresent
PROPERTIES TablesImplementHashSet DroppingEnds

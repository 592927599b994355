SPECIFICATION FairSpec
CONSTANTS
    Samples <- MCSamples
    K = 2
    Modes = {"StopK", "StopEntropy"}
    Desired = 0
    JunkBytes = {0, 1}
INVARIANTS GreedyChoice ReportedEntropy
PROPERTY Termination

SPECIFICATION SelectorSpec
CONSTANTS
    Samples <- MCMixedSamples
    K = 3
    Modes = {"StopK"}
    Desired = 0
    JunkBytes = {0, 1}
INVARIANT GreedyChoice

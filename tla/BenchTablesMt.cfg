SPECIFICATION Spec
CONSTANTS
    NumThreads = 3
    NumCalls = 2
    Names = {"wyhash", "wyhash_sub8"}
    NameOf <- TwoTrials
    MaxIters = 1
    SizeMax = 7
INVARIANTS Inv MeasuredInsideInterval QuietSetup TimingsExclusive NoLostDuration AllPassesReported
PROPERTIES ImplementsPhasedBench Termination

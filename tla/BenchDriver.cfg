SPECIFICATION FairSpec
CONSTANTS
    NumTrials = 2
    Keys = {"a", "b", "c"}
    Data = {"a", "b"}
    NumProbes = 4
    StepSize = 2
    U = 1024
INVARIANTS ChargedTimes SkipsStayInBlocks
PROPERTY Termination

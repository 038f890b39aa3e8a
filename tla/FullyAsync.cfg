SPECIFICATION FairSpec
CONSTANTS
    Required = 2
    Trigger = 2
    MaxRequired = 6
    MaxConcurrent = 2
    Total = 11
    PendingMax = 1
    TestFreq = 2
    SaveFreq = 2
    MaxFails = 1
INVARIANTS
    RolloutNumBounded
    EndIsLast
    TailIsSaved
PROPERTIES
    TrainingEnds

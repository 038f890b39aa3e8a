SPECIFICATION FairSpec
CONSTANTS
    Rank <- Ranks2
    Rank0 = "r0"
    TotalSteps = 5
    SaveFreq = 2
    Keep = 2
    MaxLives = 3
INVARIANTS
    TypeOK
    TrackedIsWhole
    OwnCheckpointsBounded
PROPERTIES
    ImplementsDurable
    EndsUnlessTorn

SPECIFICATION FairSpec
CONSTANTS
    MaxUid = 4
    PromptsPerBatch = 1
    RolloutN = 2
    BatchMultiple = 3
    TotalSteps = 1
    TestFreq = 1
    ValBeforeTrain = TRUE
    ValBatches = 1
INVARIANTS
    OnlyLateOutputsLeak
PROPERTIES
    RunEnds
    ImplementsLedger

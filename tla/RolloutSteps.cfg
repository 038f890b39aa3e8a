SPECIFICATION Spec
CONSTANTS
    MaxUid = 4
    PromptsPerBatch = 2
    RolloutN = 2
    BatchMultiple = 3
    TotalSteps = 2
    TestFreq = 0
    ValBeforeTrain = FALSE
    ValBatches = 1
INVARIANTS
    TypeOK
    SampleIsComplete
    BufferedTagsHaveStep
    SampledKeysStored
    OnlyLateOutputsLeak

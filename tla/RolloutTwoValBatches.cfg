SPECIFICATION Spec
CONSTANTS
    MaxUid = 4
    PromptsPerBatch = 1
    RolloutN = 1
    BatchMultiple = 1
    TotalSteps = 1
    TestFreq = 1
    ValBeforeTrain = FALSE
    ValBatches = 2
INVARIANTS
    CleanedUpKeysStayGone

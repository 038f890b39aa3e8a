SPECIFICATION ModelsSpec
CONSTANTS
    Worker <- Workers2
    NumBatches = 2
    NumModels = 2
    MaxFaults = 1
    MaxAttempts = 2
INVARIANTS
    SummaryIsHonest
    OneAttempt

SPECIFICATION FairSpec
CONSTANTS
    Gpu <- Gpus2
    NumModels = 2
    NumSeeds = 2
    NumBatches = 2
    MaxLives = 3
    MaxFaults = 1
    MaxKills = 1
PROPERTIES
    ImplementsLedger
    EndsInSuccess

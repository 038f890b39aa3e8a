SPECIFICATION FairSpec
CONSTANTS
    Worker <- Workers2
    NumBatches = 3
    NumModels = 2
    MaxFaults = 2
INVARIANTS
    TypeOK
    ReturnsComplete
    NoFalseAlarm
    NothingLeftBehind
PROPERTIES
    EvaluationEnds

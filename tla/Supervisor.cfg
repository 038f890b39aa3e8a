SPECIFICATION SupervisorFairSpec
CONSTANTS
    Keeper <- WaiterAndGuard
    MaxStarts = 5
    MaxTrainings = 1
    MaxMishaps = 1
INVARIANTS
    PauseIsComplete
PROPERTIES
    OneEvaluator
    NeverRestartsFinished
    SupervisionSucceeds

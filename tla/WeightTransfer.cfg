SPECIFICATION FairSpec
CONSTANTS
    Worker = {"r1", "r2"}
    NumWeights = 4
    MaxSize = 3
    BucketSize = 2
INVARIANTS
    DeliversExactly
PROPERTIES
    TransferEnds

SPECIFICATION FairSpec
CONSTANTS
    Standalone = {"s1"}
    Hybrid = {"h1"}
    Request = {"r1", "r2"}
    Turns <- TwoAndOne
    CacheSize = 1
    Versions = 2
    TestFreq = 1
    Faulty = {1}
    None = "none"
INVARIANTS
    CountIsExact
PROPERTIES
    LoadsOnlyIdle
    VersionsMonotone
    EndsUnlessStranded
CHECK_DEADLOCK FALSE

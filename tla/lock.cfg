SPECIFICATION FairSpec
CONSTANTS
    Workers = {w1, w2}
    Attempts = 2
    MaxTicks = 3
    Free = Free
CHECK_DEADLOCK FALSE
INVARIANTS
    TypeOK
    MutualExclusion
PROPERTIES
    ReleasesOwnKey
    TickServed

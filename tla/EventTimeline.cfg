SPECIFICATION FairSpec
CONSTANTS
    Workers = {w1, w2}
    Clusters <- MCClusters
    Alike <- MCAlike
    Generic <- MCGeneric
    KeyOrder <- MCKeyOrder
    EventIds = {1, 2, 3, 4, 5, 6}
    None = None
    MaxRounds = 3
    MaxFaults = 1
    headline = headline
    variant = variant
    slogan = slogan
    day = day
INVARIANTS
    TypeOK
    NoOrphan
    SplitNeedsOverlap
PROPERTIES
    FirstOwnerStays
    ImplementsTimeline
    EveryClusterEnds
CHECK_DEADLOCK FALSE

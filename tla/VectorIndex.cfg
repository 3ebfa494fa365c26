SPECIFICATION Spec
CONSTANTS
    v1 = v1
    v2 = v2
    v3 = v3
    v4 = v4
    v5 = v5
    v6 = v6
    red = red
    blue = blue
    Attrs = {red, blue}
    Workloads <- GrowThenUpsert
    InitialCentroids <- TwoCentroids
    Metric = "L2"
    MaxIterations = 4
    SplitThreshold = 3
    RootThreshold = 3
    MergeThreshold = 2
    Neighbourhood = 2
    MaxRounds = 10
    MaxCrashes = 1
    MaxFaults = 1
    BlockSize = 3
    Queries <- FewSearches
INVARIANTS
    NoPanic
    IndexIsConsistent
    LastWriteWins
    MemoryMatchesStorage
    SearchIsExact
CHECK_DEADLOCK FALSE

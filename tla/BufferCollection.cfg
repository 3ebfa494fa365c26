CONSTANTS
    p1 = p1
    p2 = p2
    c1 = c1
    c2 = c2
    l1 = l1
    l2 = l2
    NoLocation = NoLocation
    Producers <- OneProducer
    Consumers <- TwoConsumers
    Collectors = {c1}
    Locations <- TwoLocations
    DequeueInterval = 2
    GracePeriod = 2
    MaxEnqueueDelay = 1
    MaxSkew = 0
    Faults = {"fatal"}
    ResumeModes = {"none"}
    InOrderCaller = TRUE
    Crashes = TRUE
    MaxClock = 3
    MaxEpoch = 2
    MaxSequence = 2
SPECIFICATION Spec
SYMMETRY SymmetryOfLocations
INVARIANTS
    ManifestFilesExist
    ActiveFetchFindsFile
CHECK_DEADLOCK FALSE

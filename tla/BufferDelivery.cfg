CONSTANTS
    p1 = p1
    p2 = p2
    c1 = c1
    c2 = c2
    l1 = l1
    l2 = l2
    NoLocation = NoLocation
    Producers <- TwoProducers
    Consumers <- TwoConsumers
    Collectors = {}
    Locations <- TwoLocations
    DequeueInterval = 2
    GracePeriod = 1
    MaxEnqueueDelay = 0
    MaxSkew = 0
    Faults = {"fatal", "lost", "retried"}
    ResumeModes = {"none", "checkpoint"}
    InOrderCaller = TRUE
    Crashes = TRUE
    MaxClock = 0
    MaxEpoch = 2
    MaxSequence = 2
SPECIFICATION Spec
SYMMETRY Symmetry
INVARIANTS
    NoLoss
    ContiguousSequences
    SingleOwner
    InOrderProcessing
PROPERTIES
    ImplementsFifoQueue
CHECK_DEADLOCK FALSE

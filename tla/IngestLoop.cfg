CONSTANTS
    p1 = p1
    c1 = c1
    c2 = c2
    l1 = l1
    l2 = l2
    NoLocation = NoLocation
    Producers <- OneProducer
    Consumers <- TwoConsumers
    Collectors = {}
    Locations <- TwoLocations
    DequeueInterval = 2
    GracePeriod = 1
    MaxEnqueueDelay = 0
    MaxSkew = 0
    Faults = {}
    ResumeModes = {"none"}
    InOrderCaller = FALSE
    Crashes = TRUE
    IngestFails = TRUE
    MaxClock = 0
    MaxEpoch = 2
    MaxSequence = 2
SPECIFICATION LoopLiveSpec
INVARIANTS
    LoopIsOrderly
    StoppingLosesNothing
PROPERTIES
    LoopProcessesAll
    ShutdownEnds
CHECK_DEADLOCK FALSE

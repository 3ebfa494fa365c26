SPECIFICATION ReaderLiveSpec
CONSTANTS
    k1 = k1
    k2 = k2
    a1 = a1
    a2 = a2
    f1 = f1
    r1 = r1
    Key = k1
    ReaderApart = TRUE
    Keys <- TwoKeys
    Batches <- OnePair
    Calls <- TwoAppends
    Flushes <- OneFlush
    Readers <- OneReader
    Visibilities = {"Memory", "Remote"}
    SealInterval = TRUE
    QueueCapacity = 1
    Failures <- AllFailures
    MaxReads = 1
    MaxRestarts = 1
    BlockSize = 3
INVARIANTS
    NumbersAreUnique
    ReadsAreExact
    ReadsSeeAcknowledged
    ConsumesThePrefix
PROPERTIES
    RemoteReadsSurvive
    EventuallyAnswered
    ConsumerCatchesUp
CHECK_DEADLOCK FALSE

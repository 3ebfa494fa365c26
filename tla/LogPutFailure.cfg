SPECIFICATION Spec
CONSTANTS
    k1 = k1
    a1 = a1
    a2 = a2
    a3 = a3
    f1 = f1
    Keys <- OneKey
    Batches <- OneSingle
    Calls <- ThreeAppends
    Flushes <- OneFlush
    Readers <- None
    Visibilities = {"Memory"}
    SealInterval = TRUE
    QueueCapacity = 2
    Failures <- PutFailure
    MaxReads = 0
    MaxRestarts = 1
    BlockSize = 2
INVARIANTS
    MonotonicityIsPreserved
CHECK_DEADLOCK FALSE

CONSTANTS
    b1 = b1
    b2 = b2
    s1 = s1
    s2 = s2
    c1 = c1
    c2 = c2
    f1 = f1
    q1 = q1
    NoBucket = NoBucket
    Buckets <- TwoBuckets
    Series <- TwoSeries
    Requests <- MeetingRequests
    Calls <- TwoCalls
    Flushes <- OneFlush
    Queries <- OneQuery
    QueueCapacity = 1
    Failures = {"load", "apply", "flush"}
    MaxEvictions = 1
    MaxRestarts = 1
SPECIFICATION Spec
INVARIANTS
    SnapshotsAreConsistent
    IngestedReachesStorage
    FlushMakesDurable
    QueriesSeeFlushed
CHECK_DEADLOCK FALSE

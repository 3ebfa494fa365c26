CONSTANTS
    b1 = b1
    b2 = b2
    s1 = s1
    s2 = s2
    c1 = c1
    c2 = c2
    f1 = f1
    q1 = q1
    NoBucket = NoBucket
    Buckets <- OneBucket
    Series <- TwoSeries
    Requests <- SameBucketRequests
    Calls <- TwoCalls
    Flushes <- None
    Queries <- None
    QueueCapacity = 1
    Failures = {}
    MaxEvictions = 1
    MaxRestarts = 1
SPECIFICATION Spec
INVARIANT SeriesIdsAreUnique
CHECK_DEADLOCK FALSE

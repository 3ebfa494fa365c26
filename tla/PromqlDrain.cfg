SPECIFICATION Spec
CONSTANTS
    Buckets <- MCBuckets
    Queries <- DrainQueries
    NaN = NaN
    Stale = Stale
    StepChunk = 2
    SeriesChunk = 2
    Threshold = 3
    ChannelBound = 2
    MaxFaults = 2
INVARIANT
    DrainsChildFully

SPECIFICATION LiveSpec
CONSTANTS
    Buckets <- MCBuckets
    Queries <- MCQueries
    NaN = NaN
    Stale = Stale
    StepChunk = 2
    SeriesChunk = 2
    Threshold = 3
    ChannelBound = 2
    MaxFaults = 2
INVARIANTS
    ResultIsExact
    SoundPlansSucceed
    
PROPERTIES
    QueryEnds

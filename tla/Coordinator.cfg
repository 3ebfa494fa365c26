CONSTANTS
    a = a
    b = b
    Channels <- TwoChannels
    QueueCapacity = 2
    FlushCapacity = 2
    FlusherFails = TRUE
    Loads <- ThreeOrTwo
    MaxPauses = 1
SPECIFICATION LiveSpec
INVARIANTS
    ViewIsConsistent
    WatermarksTellTheTruth
    EpochsFollowCalls
PROPERTIES
    ImplementsLadder
    EventuallyServed
    ShutdownEnds
CHECK_DEADLOCK FALSE

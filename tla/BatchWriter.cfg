CONSTANTS
    w1 = w1
    w2 = w2
    w3 = w3
    f1 = f1
    f2 = f2
    Writes <- ThreeWrites
    Callers <- TwoCallers
    Sizes = {0, 1, 3}
    MaxEntrySize = 2
    FlushSize = 2
    MaxBuffered = 2
    WriteFails = TRUE
    MaxAppends = 2
SPECIFICATION LiveSpec
INVARIANTS
    WritesAreAccountedFor
    CallersSettle
PROPERTIES
    EventuallySettled
CHECK_DEADLOCK FALSE

\* A job that failed keeps its id: the height is never ingested again.
CONSTANTS
    StartHeight = 1
    MaxHeight = 1
    InitTip = 1
    TxHeights <- BothHeights
    Window = 1
    RangeLimit = 1
    w1 = w1
    w2 = w2
    NoOne = NoOne
    Workers <- OneSlot
    MaxAttempts = 2
    MaxStalled = 1
    MaxFailSafe = 0
SPECIFICATION ReliableSpec
PROPERTIES NewBlocksAreIngested
CHECK_DEADLOCK FALSE

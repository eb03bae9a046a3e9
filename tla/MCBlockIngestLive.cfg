\* Two heights, of which the first has transactions, and one slot that dies,
\* stalls and rejects; a window of one, so that a height leaves it.
CONSTANTS
    StartHeight = 1
    MaxHeight = 2
    InitTip = 1
    TxHeights <- FirstHeight
    Window = 1
    RangeLimit = 1
    w1 = w1
    w2 = w2
    NoOne = NoOne
    Workers <- OneSlot
    MaxAttempts = 2
    MaxStalled = 1
    MaxFailSafe = 0
SPECIFICATION FairSpec
PROPERTIES QueuedIsSettled LiveWindowIsIngested
CHECK_DEADLOCK FALSE

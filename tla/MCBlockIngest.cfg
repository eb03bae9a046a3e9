\* One height, two slots, and every way two runs of it can overlap: the keyed
\* job, two fail-safe jobs, a requeue after a stall under a live run.
CONSTANTS
    StartHeight = 1
    MaxHeight = 1
    InitTip = 1
    TxHeights <- BothHeights
    Window = 1
    RangeLimit = 1
    w1 = w1
    w2 = w2
    NoOne = NoOne
    Workers <- TwoSlots
    MaxAttempts = 2
    MaxStalled = 1
    MaxFailSafe = 2
SPECIFICATION Spec
INVARIANTS
    TypeOK
    TxsHaveTheirBlock
    CompletedMeansStored
    StoredMeansDispatched
    IncompleteOnlyWhenCut
PROPERTIES
    ImplementsBlockStore
\* Nothing to do once the chain stopped and every job ended.
CHECK_DEADLOCK FALSE

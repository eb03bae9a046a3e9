\* One component at a time, with what its environment owes it.
CONSTANTS
    a1 = a1
    a2 = a2
    p1 = p1
    p2 = p2
    MaxProposals = 2
    PageSize = 2
    Remote = {1, 2}
    Passes = {p1, p2}
    Failing = {p2}
SPECIFICATION LiveSpec
INVARIANT NoGapBeforeStored
PROPERTIES
    ChecksDrain
    QueueIsResumed
    ClosedIsStored
    
    KeptDepositIsRanked
CHECK_DEADLOCK FALSE

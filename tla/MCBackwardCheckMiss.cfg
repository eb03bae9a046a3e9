\* A missing block where a range is split is not found.
CONSTANTS
    StartHeight = 1
    MaxHeight = 5
    InitTip = 5
    Threshold = 2
    MaxRequeues = 1
    MaxMissing = 2
SPECIFICATION Spec
INVARIANTS DailyCheckFindsAll
CHECK_DEADLOCK FALSE

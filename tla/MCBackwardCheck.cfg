\* Ranges short enough to re-ingest and ranges that are split; the chain grows, so
\* that the sub-checks of two days, which split at different heights, meet.
CONSTANTS
    StartHeight = 1
    MaxHeight = 4
    InitTip = 3
    Threshold = 1
    MaxRequeues = 1
    MaxMissing = 1
SPECIFICATION Spec
INVARIANTS TypeOK NeighboursOnly CoveredExceptSplits
CHECK_DEADLOCK FALSE

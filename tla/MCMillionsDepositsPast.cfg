\* A deposit ingested after its withdrawal: no call fails and no process dies.
CONSTANTS
    MaxHeight = 2
    s1 = s1
    NoOne = NoOne
    Slots = {s1}
    MaxAttempts = 2
SPECIFICATION CalmSpec
PROPERTIES DepositIsRecorded
CHECK_DEADLOCK FALSE

\* A draw that is old when it is first seen, and a pass that fails.
CONSTANTS
    a1 = a1
    p1 = p1
    Addresses = {a1}
    MaxDraws = 1
    Won <- WonByDraw
    Passes = {p1}
SPECIFICATION FairSpec
PROPERTIES OldDrawsAreStored
CHECK_DEADLOCK FALSE

\* Two processes, one of which may die; the node may not answer.
CONSTANTS
    p1 = p1
    p2 = p2
    Processes = {p1, p2}
    Scheduler = p1
    MaxHeight = 2
    Window = 1
    MaxStops = 1
SPECIFICATION Spec
INVARIANTS RunningMeansConnected
CHECK_DEADLOCK FALSE

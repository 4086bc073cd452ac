CONSTANTS
    Branches = {"s1"}
    MaxTraces = 2
    MaxTurns = 2
    MaxDisturbances = 1
SPECIFICATION ForkSpec
INVARIANT ForkNeedsFailure
CHECK_DEADLOCK FALSE

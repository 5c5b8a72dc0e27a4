CONSTANTS
    None = None
    MaxItems = 2
    MaxPending = 1
    Worlds <- MCTrailing
    Requests = {}
    IdleTicks = 2
    OutputTicks = 3
    TailTicks = 1
SPECIFICATION CoreSpec
CHECK_DEADLOCK FALSE
INVARIANT TerminalsAreOwn

CONSTANTS
    None = None
    MaxItems = 2
    MaxPending = 1
    Worlds <- MCWorlds
    Requests <- MCRequests
    IdleTicks = 2
    OutputTicks = 3
    TailTicks = 1
SPECIFICATION CoreSpec
CHECK_DEADLOCK FALSE
INVARIANTS
    AdviceIsHonest
    TerminalsAreOwn
    IncrementalIsComplete
    OutputIsSound
    OneHonestEnd
    CarriersAgree
PROPERTIES
    RetiredStreamCloses

    StreamEnds

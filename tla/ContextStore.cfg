CONSTANTS
    o1 = o1
    o2 = o2
    o3 = o3
    s1 = s1
    s2 = s2
    t1 = t1
    t2 = t2
    t3 = t3
    k1 = k1
    Ops = {o1, o2, o3}
    Sessions = {s1, s2}
    Scopes = {"key"}
    Turns = {t1, t2, t3}
    Sockets = {k1}
    Tokens = {x, y}
    ScopeOf <- OneScope
    TurnSession <- SessionOfTurn
    None = None
    Worlds <- MCWorlds
    Input = 3
    Expansion = 2
    Descriptor = 1
    HistoryCosts = {5}
    Token = 1
    Meta = 1
    Thread = 1
    Route = 2
    Item = 2
    Retain = 2
    Cache = 2
    GlobalBytes = 20
    KeyBytes = 15
    SessionBytes = 14
    SessionRecords = 2
    MaxItems = 1
SYMMETRY Symmetry
SPECIFICATION Spec
CHECK_DEADLOCK FALSE
INVARIANTS
    BudgetHeld
    OneOwner
    HandedOnce
PROPERTIES
    PinnedIsKept
    NothingLeaks

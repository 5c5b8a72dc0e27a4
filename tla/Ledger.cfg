CONSTANTS
    r1 = r1
    r2 = r2
    k1 = k1
    k2 = k2
    Requests = {r1, r2}
    Keys = {k1, k2}
    Creds = {c1}
    NoKey = NoKey
    NoCred = NoCred
    MaxDay = 1
    MaxCrashes = 1
    Worlds <- MCWorlds
SPECIFICATION FairSpec
INVARIANTS
    DailyIsExact
    FenceHolds
    DeletedIsUnused
PROPERTIES
    ImplementsHistory
    EveryRequestEnds

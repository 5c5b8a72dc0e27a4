SPECIFICATION FairSpec
CONSTANTS
    Conns = {c1, c2}
    Keys = {k1, k2}
    NoKey = NoKey
    Limit = 2
    Faults = {"timeouts", "listenerFails"}
INVARIANTS
    SlotsMatchHolders
    DrainedMeansEmpty
    StoreOutlivesUse
PROPERTIES
    ShutdownCompletes

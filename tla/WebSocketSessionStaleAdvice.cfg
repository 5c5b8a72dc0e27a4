CONSTANTS
    r1 = r1
    r2 = r2
    a = a
    b = b
    Requests = {r1, r2}
    ResponseIds = {a}
    NoId = NoId
    None = None
    DeadlineCap = 2
    ClientFrames <- Creates
    CoreFrames <- Unfinished
    MaxClientFrames = 2
    MaxCoreFrames = 2
    CoreCloses = {}
    Faults = {}
SYMMETRY Symmetry
SPECIFICATION Spec
INVARIANT
    SafeAdviceIsHonest
CHECK_DEADLOCK FALSE

CONSTANTS
    r1 = r1
    r2 = r2
    a = a
    b = b
    Requests = {r1}
    ResponseIds = {a}
    NoId = NoId
    None = None
    DeadlineCap = 1
    ClientFrames <- Creates
    CoreFrames <- OneOutcome
    MaxClientFrames = 2
    MaxCoreFrames = 2
    CoreCloses = {"closed"}
    Faults = {"stop", "peerLeaves"}
SPECIFICATION FairSpec
PROPERTIES
    DoomedSessionReturns
    RetiredSessionReturns

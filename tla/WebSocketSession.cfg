CONSTANTS
    r1 = r1
    r2 = r2
    a = a
    b = b
    Requests = {r1, r2}
    ResponseIds = {a, b}
    NoId = NoId
    None = None
    DeadlineCap = 2
    ClientFrames <- AnyClient
    CoreFrames <- TwoResponses
    MaxClientFrames = 2
    MaxCoreFrames = 3
    CoreCloses = {"core", "code"}
    Faults = {"writeFails"}
SYMMETRY Symmetry
SPECIFICATION Spec
INVARIANTS
    AccountedOnce
    UsageOfOwnResponse
    CompletedWasDelivered
    SafeAdviceIsHonest

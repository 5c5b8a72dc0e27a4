SPECIFICATION FairSpec
CONSTANTS
    Idle = 2
    OutputIdle = 2
    Tail = 1
    Events = {"output", "status", "completed", "failed", "error"}
    Pieces = {"part", "data", "all"}
    Modes = {"sse", "detect", "json"}
INVARIANTS
    CompletedIsWhole
    GuardIsCurrent
PROPERTY
    EndsOrProgresses

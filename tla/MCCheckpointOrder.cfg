\* No fault at all: a checkpoint is written late, over that of a later freeze.
CONSTANTS
    h1 = h1
    h2 = h2
    h3 = h3
    Host = {h1, h2}
    Skew <- NoSkew
    MaxSkew = 0
    StaleThreshold = 1
    MemTtl = 9
    MarkChoices = {FALSE}
    RefreshesETags = FALSE
    Faults = {}
    MaxNow = 1
    MaxCalls = 4
    MaxTurns = 1
SPECIFICATION Spec
\* The clock, the calls and the turns are bounded: the model stops there.
CHECK_DEADLOCK FALSE
INVARIANTS
    LatestCheckpointIsFound

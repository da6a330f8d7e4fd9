\* No fault at all: a host freezes, and comes back after the memory's TTL.
CONSTANTS
    h1 = h1
    h2 = h2
    h3 = h3
    Host = {h1}
    Skew <- NoSkew
    MaxSkew = 0
    StaleThreshold = 1
    MemTtl = 2
    MarkChoices = {TRUE}
    RefreshesETags = FALSE
    Faults = {}
    MaxNow = 5
    MaxCalls = 4
    MaxTurns = 1
SPECIFICATION Spec
\* The clock, the calls and the turns are bounded: the model stops there.
CHECK_DEADLOCK FALSE
PROPERTIES
    ExpiredMemoryIsRecreated

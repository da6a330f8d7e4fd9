\* No fault at all: a runtime re-reads the ETags before it freezes.
CONSTANTS
    h1 = h1
    h2 = h2
    h3 = h3
    Host = {h1, h2}
    Skew <- NoSkew
    MaxSkew = 0
    StaleThreshold = 1
    MemTtl = 9
    MarkChoices = {FALSE}
    RefreshesETags = TRUE
    Faults = {}
    MaxNow = 0
    MaxCalls = 4
    MaxTurns = 2
SPECIFICATION Spec
\* The clock, the calls and the turns are bounded: the model stops there.
CHECK_DEADLOCK FALSE
PROPERTIES
    NoLostUpdate

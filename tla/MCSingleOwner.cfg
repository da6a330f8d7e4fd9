\* One host that re-reads the ETags before it freezes, or freezes again.
CONSTANTS
    h1 = h1
    h2 = h2
    h3 = h3
    Host = {h1}
    Skew <- NoSkew
    MaxSkew = 0
    StaleThreshold = 1
    MemTtl = 2
    MarkChoices = {TRUE, FALSE}
    RefreshesETags = TRUE
    Faults = {"crash", "error"}
    MaxNow = 3
    MaxCalls = 5
    MaxTurns = 3
SPECIFICATION Spec
\* The clock, the calls and the turns are bounded: the model stops there.
CHECK_DEADLOCK FALSE
INVARIANTS
    DurablePairMatches
    SnapshotFromOneFreeze

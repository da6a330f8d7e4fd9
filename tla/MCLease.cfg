\* Every activation is recorded and every failed write was not applied.
CONSTANTS
    h1 = h1
    h2 = h2
    h3 = h3
    Host = {h1, h2, h3}
    Skew <- OneAhead
    MaxSkew = 1
    StaleThreshold = 2
    MemTtl = 9
    MarkChoices = {TRUE}
    RefreshesETags = FALSE
    Faults = {"crash", "error"}
    MaxNow = 3
    MaxCalls = 4
    MaxTurns = 1
SPECIFICATION Spec
\* The clock, the calls and the turns are bounded: the model stops there.
CHECK_DEADLOCK FALSE
INVARIANTS
    LeaseExclusion
    LeaseInv

\* Two hosts, every fault, marked and unmarked activations, an expiring memory.
CONSTANTS
    h1 = h1
    h2 = h2
    h3 = h3
    Host = {h1, h2}
    Skew <- NoSkew
    MaxSkew = 0
    StaleThreshold = 1
    MemTtl = 2
    MarkChoices = {TRUE, FALSE}
    RefreshesETags = FALSE
    Faults = {"crash", "error", "lost_ack"}
    MaxNow = 2
    MaxCalls = 5
    MaxTurns = 2
SPECIFICATION FairSpec
\* The clock, the calls and the turns are bounded: the model stops there.
CHECK_DEADLOCK FALSE
INVARIANTS
    TypeOK
    DurablePairMatches
    MemoryNeverBehind
    SnapshotFromOneFreeze
    CheckpointsAreCommitted
    SafetyInv
PROPERTIES
    NoLostUpdate
    FirstCommitterWins
    LostForGood
    Thaws

\* Two agents and two actors, or one agent in two; throttling from one active on.
CONSTANTS
    Agent = {a1, a2}
    Task = {t1, t2}
    Slot = {s1, s2}
    Limit = 1
    Limits = {0, 1, 5, 19, 20, 21, 40, 99, 100, 120}
    Fills = {0, 90}
    Nobody = Nobody
    MaxWrites = 3
SYMMETRY Symmetry
SPECIFICATION Spec
INVARIANTS
    TypeOK
    CriticalIsThrottled
    ThresholdsAreExact
PROPERTIES
    LostOnlyInFailure
    PendingIsKept

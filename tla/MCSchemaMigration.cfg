\* Four versions, of which one is newer than the latest.
CONSTANTS
    LATEST_SCHEMA_VERSION = 2
    Version <- Versions
SPECIFICATION Spec
INVARIANTS
    TypeOK
    ResultIsLatest
    RefusedOnlyWithoutChain
PROPERTIES
    WalkEnds

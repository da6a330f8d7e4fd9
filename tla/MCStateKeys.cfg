\* Six ids, of which validate_id refuses two; numbers of one digit and of two.
CONSTANTS
    Symbol <- Symbols
    Ids <- BarsAndLabels
    Numbers = {2, 10}
    Width = 2
    MaxRecords = 2
    AgentTypes <- Types
    Digests <- TwoDigits
    Codes = {1, 7}
SPECIFICATION Spec
INVARIANTS
    ScanIsExact
    ScanIsInOrder
    TenantsAreApart
PROPERTIES
    NoneReplaced

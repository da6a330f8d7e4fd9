\* A tenant whose id contains another's, a level and an agent type.
CONSTANTS
    Symbol <- Symbols
    Ids <- ColonTenants
    Numbers = {0}
    Width = 1
    MaxRecords = 2
    AgentTypes <- Types
    Digests <- TwoDigits
    Codes = {1, 7}
SPECIFICATION Spec
INVARIANTS
    NeverServedToAnother

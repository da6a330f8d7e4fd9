\* Two writers, one of which may be the rotation job; two rotations.
CONSTANTS
    Worker <- Workers
    Update <- Edits
    MaxKey = 3
    MaxWrites = 4
SPECIFICATION Spec
INVARIANTS
    TypeOK
    EveryRecordOpens
PROPERTIES
    RotationIsNotUndone
    Transparent

SPECIFICATION Spec
CONSTANTS
    MaxUnits = 2
    PartSize = 1
    NumParts = 2
    None = None
CHECK_DEADLOCK FALSE
INVARIANTS
    AbortOnError

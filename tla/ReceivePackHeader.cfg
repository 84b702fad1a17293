SPECIFICATION Spec
CONSTANTS
    MaxBody = 1
    MaxChunks = 1
    Limit = 1
CHECK_DEADLOCK FALSE
INVARIANTS
    HeaderAtMostOnce

\* Several chunks in the tempfile and several written directly; Limit cuts a
\* body of upload-pack.
SPECIFICATION FairSpec
CONSTANTS
    MaxBody = 3
    MaxChunks = 4
    Limit = 1
CHECK_DEADLOCK FALSE
INVARIANTS
    ResponseAfterRequest
    ResponseIsPrefix
    SuccessIsComplete
    HeaderTellsOutcome
PROPERTIES
    EverybodyEnds

\* Forms with up to two parts, metadata in up to two writes, one write of
\* each source of a body; error pages for some statuses only.
SPECIFICATION FairSpec
CONSTANTS
    Pages <- MCPages
    Chunks = 1
    MaxParts = 2
    MaxOut = 2
    Zips <- MCZips
INVARIANTS
    MetadataIsWhole
    MetadataListsTree
    FieldsAreSigned
    AuthWorkerFreed
    OneBody
    NothingInternalLeaks
PROPERTY
    HandlerEnds
CHECK_DEADLOCK FALSE

\* Two requests race for the cache with no child process or two; the archive
\* has two units, so that a tempfile can be empty, partial and complete.
SPECIFICATION FairSpec
CONSTANTS
    Requests = {r1, r2}
    Sources = {"gitaly", "tar.gz"}
    Total = 2
    None = None
CHECK_DEADLOCK FALSE
INVARIANTS
    CacheIsComplete
    SuccessIsComplete
PROPERTIES
    ChildrenReaped

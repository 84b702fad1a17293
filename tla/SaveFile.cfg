\* Bodies from empty to one unit more than two parts of two units.
SPECIFICATION FairSpec
CONSTANTS
    MaxUnits = 5
    PartSize = 2
    NumParts = 2
    None = None
CHECK_DEADLOCK FALSE
INVARIANTS
    SuccessMeansStored
    TooLargeIsReal
    NothingLeftInStore
    NoWaitInVain
PROPERTIES
    EverythingEnds

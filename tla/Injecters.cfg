\* Two requests, one or two Gitaly servers, two secrets the file may hold;
\* files of no, one and three units, so that one can be cut at every place
\* and a process can wait with a full pipe.
SPECIFICATION Spec
CONSTANTS
    r1 = r1
    r2 = r2
    Requests = {r1, r2}
    Signers = {r1, r2}
    Servers = {g1, g2}
    Secrets = {k1, k2}
    None = None
    NoSecret = NoSecret
    KindChoices <- MCKinds
    Sizes <- MCSizes
    ErrLen = 1
INVARIANTS
    LengthProtects
    NotFoundMeansMissing
PROPERTIES
    ImplementsMemo
    RequestLeavesNothing

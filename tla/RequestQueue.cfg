\* One request runs, one waits and one meets a full queue or a release in
\* progress; the safety properties are proved for every size.
SPECIFICATION FairSpec
CONSTANTS
    Requests = {r1, r2, r3}
    Limit = 1
    QueueLimit = 1
INVARIANTS
    ChannelsCountHolders
    AtMostLimitRunning
    PopsNeverBlock
PROPERTIES
    EveryRequestAnswered
    ImplementsAdmission

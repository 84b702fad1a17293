\* Two requests of runners with one token compete for the mutex with Process
\* while the key changes between a value, empty and absent; and one request
\* polls while the key also changes from one value to another.  The safety
\* properties are proved for every size.
SPECIFICATION MCFairSpec
CONSTANTS
    w1 = w1
    w2 = w2
    v1 = v1
    v2 = v2
    Watchers = {w1, w2}
    Keys = {k1}
    Values = {v1, v2}
    Empty = Empty
    Nil = Nil
    None = None
    MaxPipe = 1
INVARIANTS
    NotifyNeverBlocks
    NoRegistrationLeak
    GaugeCountsWatchers
    NoLostChange
PROPERTIES
    WatchKeyReturns
    ChangeReachesRails

SPECIFICATION Spec
CONSTANTS
    Requests = {r1, r2, r3}
    Limit = 1
    QueueLimit = 1
INVARIANTS
    AtMostQueueLimitQueued

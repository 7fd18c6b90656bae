SPECIFICATION FairSpec
CONSTANTS
    Calls = {c1, c2, c3}
    Workers = 1
    MaxSessions = 2
INVARIANTS TypeOK RepliesFollowEffects StoreExclusive
PROPERTIES CancelledInQueueNeverRuns StoreCallsEnd
CHECK_DEADLOCK FALSE

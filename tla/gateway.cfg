SPECIFICATION FairSpec
CONSTANTS
    Timeout = 3
    MaxReads = 3
INVARIANTS TypeOK TextIsWholeAnswer SentAtMostOnce TimePerOperation
PROPERTIES CallEnds
CHECK_DEADLOCK FALSE

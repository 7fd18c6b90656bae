SPECIFICATION Spec
CONSTANTS
    Timeout = 2
    MaxReads = 2
INVARIANTS WallClockBound
CHECK_DEADLOCK FALSE

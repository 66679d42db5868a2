SPECIFICATION FairSpec
CONSTANTS
    PARTS = 2
    SEGMENTS = 2
    FIFO_PIECES = 4
    MAX_CONNECT_REPEAT = 2
    MaxFaults = 2
    MaxTime = 2
INVARIANTS FileIsRight
PROPERTIES WorkEnds Served
CHECK_DEADLOCK FALSE

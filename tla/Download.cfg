\* The server changes its mind twice, and any two things go wrong.  After two
\* interrupted installations the tracker may not boot: it really stops.
CONSTANTS
    A = A
    B = B
    C = C
    Files <- MCFiles
    Blocks <- MCBlocks
    Home <- MCHome
    Factory = Factory
    None = None
    ONE_SEND = 2
    MAX_MESSAGE_REPEAT = 2
    BLOCK_REPEAT = 2
    MAX_CONNECT_REPEAT = 2
    FIFO_MESSAGES = 2
    MaxFaults = 2
    MaxSwitches = 2
CHECK_DEADLOCK FALSE
SPECIFICATION FairSpec
INVARIANTS
    CountedIsThere
    ImagesAreWhole
    OneCutIsHarmless
PROPERTIES
    Replaces
    Installed

\* What runs in the rest of the tick in which the link is given up.
CONSTANTS
    Services = {"MAIN", "CONFIG", "LOG"}
    Domains = {"MAIN", "LOG"}
    Moves = {FALSE}
    SmsCommands = {}
    MainCommands = {}
    PowerUps = {FALSE}
    MAX_CONNECT_REPEAT = 2
    MAX_MESSAGE_REPEAT = 2
    BLOCK_REPEAT = 2
    REPORT_REPEAT = 2
    FAIL_WRAP = 4
    MaxBatches = 2
SPECIFICATION Spec
INVARIANTS
    OfflineIsQuiet
    OverrunOnlyUnasked
PROPERTIES
    NothingWakesOffline

\* The commands that move MAIN or change the access point.
CONSTANTS
    Services = {"MAIN", "CONFIG"}
    Domains = {"MAIN", "CONFIG"}
    Moves = {TRUE, FALSE}
    SmsCommands = {"server", "both"}
    MainCommands = {"server", "apn"}
    PowerUps = {TRUE}
    MAX_CONNECT_REPEAT = 2
    MAX_MESSAGE_REPEAT = 2
    BLOCK_REPEAT = 2
    REPORT_REPEAT = 2
    FAIL_WRAP = 4
    MaxBatches = 2
SPECIFICATION Spec
INVARIANTS
    ServerKnown
    MoveIsRemembered

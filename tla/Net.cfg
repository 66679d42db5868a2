\* MAIN, which CONFIG brings back after the link was lost.
CONSTANTS
    Services = {"MAIN", "CONFIG"}
    Domains = {"MAIN", "CONFIG"}
    Moves = {}
    SmsCommands = {}
    MainCommands = {"apn"}
    PowerUps = {TRUE}
    MAX_CONNECT_REPEAT = 2
    MAX_MESSAGE_REPEAT = 2
    BLOCK_REPEAT = 2
    REPORT_REPEAT = 2
    FAIL_WRAP = 4
    MaxBatches = 2
SPECIFICATION FairSpec
PROPERTIES
    MainComesBack
    ReportResolved

\* The promise of config_service_retry_config: does CONFIG leave ERROR?
CONSTANTS
    Services = {"MAIN", "CONFIG"}
    Domains = {"MAIN"}
    Moves = {}
    SmsCommands = {}
    MainCommands = {}
    PowerUps = {FALSE}
    MAX_CONNECT_REPEAT = 2
    MAX_MESSAGE_REPEAT = 2
    BLOCK_REPEAT = 2
    REPORT_REPEAT = 2
    FAIL_WRAP = 4
    MaxBatches = 2
SPECIFICATION FairSpec
PROPERTIES
    ConfigRetries

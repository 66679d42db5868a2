\* An update beside the reports of MAIN.
CONSTANTS
    Services = {"MAIN", "UPDATE"}
    Domains = {"MAIN", "UPDATE"}
    Moves = {TRUE}
    SmsCommands = {"server"}
    MainCommands = {}
    PowerUps = {FALSE}
    MAX_CONNECT_REPEAT = 2
    MAX_MESSAGE_REPEAT = 2
    BLOCK_REPEAT = 2
    REPORT_REPEAT = 2
    FAIL_WRAP = 4
    MaxBatches = 2
SPECIFICATION FairSpec
INVARIANTS
    TypeOK
    OpenIsWorking
PROPERTIES
    UpdateSurvivesMain
    UpdateEnds

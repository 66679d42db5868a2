SPECIFICATION FairSpec
CONSTANTS
    MAX_SEND_QUE_LEN = 5
    MARKS = 7
    MAX_RETRY = 2
    Times = {1}
    Own = 2
    Lossy = TRUE
    MAX_FAULT_TOLERANCE = 1
    SET_RETRIES = 1
    SLEEP_RETRIES = 1
    MAX_QUEUED = 0
    Prompt = TRUE
INVARIANTS ConfirmedAlarm StoppedMeansOff
PROPERTIES AnswerReleasesItsFrame SleeperWakes HandshakeEnds
CHECK_DEADLOCK FALSE

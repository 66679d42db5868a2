SPECIFICATION FairSpec
CONSTANTS
    Sockets = {0, 4}
    Movable = {0}
    Domains = {d1, d2}
    NoName = NoName
    NoIp = NoIp
    LiteralIp = LiteralIp
    NoSocket = NoSocket
    GET_HOST_TIME_OUT = 1
    MAX_GET_HOST_REPEAT = 2
INVARIANTS
    TypeOK
    FailCountFresh
PROPERTIES
    OnlyHolderLeaves
    ServedWhenLowest

SPECIFICATION Spec
CONSTANTS
    Sockets = {0, 2, 4}
    Movable = {0}
    Domains = {d1, d2}
    NoName = NoName
    NoIp = NoIp
    LiteralIp = LiteralIp
    NoSocket = NoSocket
    GET_HOST_TIME_OUT = 0
    MAX_GET_HOST_REPEAT = 2
SYMMETRY Symmetry
INVARIANTS
    SlotIsRequested
    CacheIsOwn
PROPERTIES
    ImplementsNameCache

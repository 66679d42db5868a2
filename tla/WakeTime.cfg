\* Twelve days: every weekday, the first Monday once more, and a moment more than
\* a week ahead.
CONSTANTS
    HOUR = 6
    First <- MCFirst
    Last <- MCLast
    Zones <- MCZones
    Modes <- MCModes
    RepGap = 21
    HANDSHAKE = 2
SPECIFICATION Spec
INVARIANT NothingSleptThrough
PROPERTY WokenForSomething
CHECK_DEADLOCK FALSE

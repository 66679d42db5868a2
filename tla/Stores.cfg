CONSTANTS
    Modes = {Alarm, Track, Week}
    Factory = Alarm
    Blank = Blank
    Torn = Torn
    None = None
    MaxErrors = 1
    MaxCuts = 2
    MaxChanges = 2
SPECIFICATION Spec
INVARIANTS NeverForgets OldOrNew SavedIsInForce InStep
PROPERTIES NumberKept UnitOldOrNew

\* Two sessions and two events.
CONSTANTS
    Sessions = {s1, s2}
    None = None
    MaxEvents = 2
    Limit = 1
    ScanCap = 2
SPECIFICATION Spec
INVARIANTS NoLossCursor
CHECK_DEADLOCK FALSE

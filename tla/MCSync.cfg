\* Two sessions and two events, of which one fits an answer.
CONSTANTS
    Sessions = {s1, s2}
    None = None
    MaxEvents = 2
    Limit = 1
    ScanCap = 2
SPECIFICATION FairSpec
INVARIANTS NothingSkipped SignalsReachSomebody HandoffLosesNothing
PROPERTIES CursorsOnlyAdvance EventuallyLearnt
CHECK_DEADLOCK FALSE

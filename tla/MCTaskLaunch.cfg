\* One attempt that two sessions may keep prolonging up to its hard deadline,
\* and one reader.  A grace window of two ticks would overrun the deadline from
\* the first overdue tick on.
CONSTANTS
    Launches = {l1}
    Sessions = {s1, s2}
    Requests = {q1}
    NoLaunch = NoLaunch
    NoSession = NoSession
    Ttls = {1}
    MaxTtl = 2
    Grace = 2
    MaxTime = 3
SPECIFICATION FairSpec
INVARIANTS LiveVersionNamesStatus
PROPERTIES ProlongationBounded ExpiryEndsTheRun LaunchesClose
CHECK_DEADLOCK FALSE

\* Three requests with two different bodies.  The clock allows a dead owner's
\* reservation to be reclaimed, and time to pass while its successor runs.
CONSTANTS
    Requests = {q1, q2, q3}
    NoRequest = NoRequest
    Bodies = {b1, b2}
    NoBody = NoBody
    ReclaimAfter = 1
    PollLimit = 1
    MaxTime = 3
SPECIFICATION FairSpec
INVARIANTS OneRunner OneSurvivingResource SameAnswer
PROPERTIES RequestsEnd
CHECK_DEADLOCK FALSE

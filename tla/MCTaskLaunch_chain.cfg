\* A chain of up to three attempts, with a read in flight and no session.
CONSTANTS
    Launches = {l1, l2, l3}
    Sessions = {}
    Requests = {q1}
    NoLaunch = NoLaunch
    NoSession = NoSession
    Ttls = {1}
    MaxTtl = 1
    Grace = 1
    MaxTime = 2
SPECIFICATION Spec
SYMMETRY Symmetry
INVARIANTS RetryChainSound
PROPERTIES ImplementsAttemptChain
CHECK_DEADLOCK FALSE

\* One launch, with two failed requests and two crashes.
CONSTANTS
    Launches = {l1}
    MaxConcurrent = 1
    MaxFaults = 2
    MaxCrashes = 2
    MaxStops = 1
SPECIFICATION FairSpec
PROPERTIES CancelledRunStops RequestsAreAnswered
CHECK_DEADLOCK FALSE

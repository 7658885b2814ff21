\* Two launches on a machine that runs one at a time, with one failed request,
\* one crash and one cancellation.
CONSTANTS
    Launches = {l1, l2}
    MaxConcurrent = 1
    MaxFaults = 1
    MaxCrashes = 1
    MaxStops = 1
SPECIFICATION Spec
INVARIANTS TypeOK StartedOnce CapacityHonoured NoReportRefused
CHECK_DEADLOCK FALSE

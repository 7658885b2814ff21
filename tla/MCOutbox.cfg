SPECIFICATION FairSpec
CONSTANTS
  Rows = {r1, r2}
  Events = {}
  Guarded = {r2}
  Repeats = {r2}
  Passes = {heartbeat, drain}
  Heartbeat = heartbeat
  Limit = 2
  MaxEnqueues = 3
  MaxRestarts = 1
INVARIANTS NothingLost
PROPERTIES OnlyFailedRowsAreOvertaken Drains
CHECK_DEADLOCK FALSE

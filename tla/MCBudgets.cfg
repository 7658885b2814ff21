\* Two launches compete for one slot, and in each period for a limit of one
\* reservation.  A launch lasts into the next period.
CONSTANTS
    Launches = {l1, l2}
    Reports = {r1}
    Outside = {}
    Users = {admin}
    Bodies <- MCBodies
    Amounts = {2}
    Limit = 1
    Reserved = 1
    Slots = 1
    SettleAfter = 0
    Ttl = 2
    Day = 1
    MaxWait = 1
    MaxLate = 0
    MaxVersion = 2
    MaxTime = 2
SPECIFICATION Spec
SYMMETRY Symmetry
INVARIANTS AdmittedWithinLimit SlotsHonouredUnlessProlonged UsageIsBilledOnce EnforcedAsConfirmed
CHECK_DEADLOCK FALSE

CONSTANTS
    Slices = {s1, s2}
    MaxId = 2
    Rounds = {r1, r2}
    MaxRestarts = 1
    MaxUpsets = 1
    NoJob = NoJob  Idle = Idle
SPECIFICATION Spec
CHECK_DEADLOCK FALSE
INVARIANTS
    OnlyTrackedSpin
PROPERTIES
    ReportsKept
    ReportedInTheEnd

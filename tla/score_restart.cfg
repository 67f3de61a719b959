SPECIFICATION Spec
CONSTANTS
    j1 = j1
    j2 = j2
    j3 = j3
    NoJob = NoJob
    NoState = NoState
    Jobs = {j1, j2}
    ScannersOf <- Apart
    MaxClock = 2
    MaxDrops = 0
    MaxErrors = 1
    MaxCrashes = 1
INVARIANT HistoryKept
CHECK_DEADLOCK FALSE

SPECIFICATION FairSpec
CONSTANTS
    j1 = j1
    j2 = j2
    j3 = j3
    NoJob = NoJob
    NoState = NoState
    Jobs = {j1, j2, j3}
    ScannersOf <- Overlapping
    MaxClock = 3
    MaxDrops = 1
    MaxErrors = 1
    MaxCrashes = 1
INVARIANTS TypeOK FacetsKept
PROPERTY UpdateCompletes
CHECK_DEADLOCK FALSE

SPECIFICATION GSpec
CONSTANTS
    q1 = q1  i1 = i1  q2 = q2  i2 = i2
    NoRow = NoRow
    Requests <- Both
    RunIds <- BothIds
    IdOf <- Own
    PeerRequests <- None
    CloneRequests <- None
    Scans <- SastEach
    Seen <- HighMedium
    Forms <- OneForm
    OfCommit <- BothIds
    Posted <- SastPosted
    MinSeverities <- OneMinimum
    Scopes <- OneScope
    MaxFindings = 0
    MaxTime = 1
    MaxStored = 2
    MaxDrops = 0
    MaxCrashes = 0
    RunLimit = 1
    MaxErrors = 0
INVARIANTS CommitPassMeansNoneStored
CHECK_DEADLOCK FALSE

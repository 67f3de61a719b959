SPECIFICATION GSpec
CONSTANTS
    q1 = q1  i1 = i1  q2 = q2  i2 = i2
    NoRow = NoRow
    Requests <- First
    RunIds <- OneId
    IdOf <- OwnFirst
    PeerRequests <- None
    CloneRequests <- None
    Scans <- SastIac
    Seen <- HighMedium
    Forms <- AllForms
    OfCommit <- OneId
    Posted <- ContainerPosted
    MinSeverities <- Minima
    Scopes <- SomeScopes
    MaxFindings = 1
    MaxTime = 0
    MaxStored = 1
    MaxDrops = 0
    MaxCrashes = 1
    RunLimit = 2
    MaxErrors = 1
INVARIANTS PassMeansNoneStored PassCoversUnlanded
CHECK_DEADLOCK FALSE

SPECIFICATION RSpec
CONSTANTS
    q1 = q1  i1 = i1
    NoRow = NoRow
    Requests <- First
    RunIds <- OneId
    IdOf <- OwnFirst
    PeerRequests <- None
    CloneRequests <- First
    Scans <- SastOnly
    Seen <- High
    Posted <- SastPosted
    MaxFindings = 1
    MaxTime = 2
    MaxStored = 2
    MaxDrops = 1
    MaxCrashes = 1
INVARIANTS LatestRowKept CheckoutRemoved PageAgrees
PROPERTIES ReadsGoForward
CHECK_DEADLOCK FALSE

SPECIFICATION CalmSpec
CONSTANTS
    q1 = q1  q2 = q2  i1 = i1  i2 = i2
    NoRow = NoRow
    Requests <- Both
    RunIds <- BothIds
    IdOf <- Own
    PeerRequests <- Second
    CloneRequests <- Second
    Scans <- SeveralAndPeer
    Seen <- High
    MaxFindings = 2
    MaxTime = 0
    MaxStored = 1
    MaxDrops = 0
    MaxCrashes = 0
INVARIANTS TypeOK SummaryAccounts
PROPERTIES OutcomeIsFinal DispatchedFinishes
CHECK_DEADLOCK FALSE

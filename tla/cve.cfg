SPECIFICATION CveSpec
CONSTANTS
    s1 = s1  s2 = s2  s3 = s3
    k1 = k1  k2 = k2
    Scans = {s1, s2, s3}
    Keys = {k1, k2}
    Deps <- MCDeps
    Vulnerable = {k1}
    NoScan = NoScan
    Attempts = 2
    Budget = 2
    MaxEvictions = 1
    Callers = {c1, c2, c3}
    Unit = 3
    Rate = 2
    Burst = 1
    MaxClock = 10
    LastCall = 2
    Oversleep = 1
INVARIANTS CveTypesOK NothingMissed AnsweredOnce WindowBound
PROPERTIES ScansEnd WaitEnds
CHECK_DEADLOCK FALSE

SPECIFICATION Spec
CONSTANTS
    s1 = s1  s2 = s2  s3 = s3
    k1 = k1  k2 = k2
    Scans = {s1, s2, s3}
    Keys = {k1, k2}
    Deps <- MCDeps
    Vulnerable = {k1}
    NoScan = NoScan
    Attempts = 2
    Budget = 2
    MaxEvictions = 1
INVARIANT BudgetIsPerScan
CHECK_DEADLOCK FALSE

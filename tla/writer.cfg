SPECIFICATION Spec
CONSTANTS
    c1 = c1  c2 = c2
    r1 = r1  r2 = r2  r3 = r3
    NoRow = NoRow
    Callers <- MCCallers
    Rows <- MCRows
    EmptyRows <- MCEmptyRows
    MaxInFlight = 1
    Attempts = 3
    MaxCrashes = 1
INVARIANTS TypeOK InFlightBounded CopiesMatchAttempts
PROPERTIES CallerReleased ImplementsAsyncInsert
CHECK_DEADLOCK FALSE

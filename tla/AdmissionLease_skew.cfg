CONSTANTS
    r1 = r1
    r2 = r2
    r3 = r3
    Requests = {r1, r2}
    Limit = 1
    TTL = 5
    Interval = 1
    Delay = 1
    Offset <- OneAhead
    Skew = 1
    FailOpen = FALSE
    MaxTime = 11
SPECIFICATION Spec
INVARIANTS LeasesWithinLimit BeatingWorkWithinLimit
PROPERTIES ReleasedStaysReleased
CHECK_DEADLOCK FALSE

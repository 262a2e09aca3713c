\* Three notifications compete for a claim of one; clocks one second apart.
SPECIFICATION Spec
CONSTANTS
    Notification = {n1, n2, n3}
    Scheduler = {s1, s2}
    MaxAttempts = 2
    INITIAL_RETRY_DELAY_SECONDS = 1
    MAX_RETRY_DELAY_SECONDS = 1
    ClaimLimit = 1
    Skew = 1
    MaxTime = 2
    StatusCode = {200, 302, 422, 500, 501}
    None = None
SYMMETRY Symmetry
CHECK_DEADLOCK FALSE
INVARIANTS
    OnlyTheseAreStranded
    VerdictsAreTrue
PROPERTY InTurn

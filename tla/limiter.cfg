\* Three calls, two at a time, on two windows; a process may die.
SPECIFICATION LimiterSpec
CONSTANTS
    Call = {c1, c2, c3}
    Windows <- TwoWindows
    Limit <- TwoLimits
    Length <- TwoLengths
    Concurrency = 2
    MayCrash = TRUE
    MaxTime = 3
    NoCall = NoCall
SYMMETRY Symmetry
CHECK_DEADLOCK FALSE
INVARIANTS
    OverrunBounded
    AdmittedIsCounted
    EveryKeyExpires

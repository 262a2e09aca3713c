\* A verified address whose registration token expires unused.
SPECIFICATION FairSpec
CONSTANTS
    Request = {q1, q2}
    Verify = {v1}
    None = None
CHECK_DEADLOCK FALSE
PROPERTY CanVerifyAgain

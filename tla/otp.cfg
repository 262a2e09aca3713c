\* Three requests for a code and two calls that present one, in either flow.
SPECIFICATION FairSpec
CONSTANTS
    Request = {q1, q2, q3}
    Verify = {v1, v2}
    None = None
CONSTRAINT RegistrationBound
CHECK_DEADLOCK FALSE
INVARIANTS
    OneSignInPerCode
    SignInBurnsOwnCode
    GrantsHaveCodes
PROPERTIES
    LoginConflictIsRecent
    EveryCallEnds

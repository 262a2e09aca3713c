\* Three refreshes and two logouts, with any token they may have been given.
SPECIFICATION Spec
CONSTANTS
    Refresh = {r1, r2, r3}
    Logout = {l1, l2}
    FirstToken = FirstToken
    None = None
    User = u1
    Forged = Forged
    JWT_ACCESS_TOKEN_TTL_SECONDS = 2
    REGISTRATION_TOKEN_TTL_SECONDS = 1
    MaxTime = 3
SYMMETRY Symmetry
CHECK_DEADLOCK FALSE
INVARIANTS
    SupersededIsDead
    OneLogoutSucceeds
    AccessEndsAfterLogout
PROPERTY RevokedIsFinal

\* Three calls over two emails and two slugs: every pattern of waiting.
SPECIFICATION Spec
CONSTANTS
    Call = {c1, c2, c3}
    Roster = {r1}
    Email = {e1, e2}
    Name <- Names
    MaxTime = 2
    None = None
    Forged = Forged
    JWT_ACCESS_TOKEN_TTL_SECONDS = 1
    REGISTRATION_TOKEN_TTL_SECONDS = 1
    Lower = {"a", "p", "i"}
    Digit = {"7"}
    Other = {"!"}
    Upper <- Capitals
    RESERVED_WORKSPACE_NAMES <- Reserved
    RESERVED_WORKSPACE_SLUGS <- Reserved
    MaxNameLength = 4
SYMMETRY Symmetry
CHECK_DEADLOCK FALSE
INVARIANTS
    AccountsAreWhole
    GivenTokensWork
    RosterIsComplete
    NobodyWaitsForever

\* Two workspaces, two keys, racing revocations and requests.
SPECIFICATION Spec
CONSTANTS
    Create = {c1, c2}
    Revoke = {r1, r2}
    Use = {u1}
    Workspace = {w1, w2}
    Name = {name1, name2}
    None = None
SYMMETRY Symmetry
CHECK_DEADLOCK FALSE
INVARIANTS
    RevokedOnceByItsOwner
    DeadKeysOpenNothing

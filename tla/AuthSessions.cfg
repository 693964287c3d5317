\* One account, two requests in progress, three sessions, two reset tokens.
SPECIFICATION Spec
CONSTANTS
    Users = {u1}
    Tokens = {t1, t2}
    Requests = {r1, r2}
    MaxSession = 3
    MaxPassword = 2
    None = None
INVARIANTS
    OneLiveGeneration
    CompromisedWhole
PROPERTIES
    FamiliesAreLogins
    PasswordMoves
SYMMETRY Symmetry
CHECK_DEADLOCK FALSE

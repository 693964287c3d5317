\* One workspace, three identities, one request that may be delayed, one authorization.
SPECIFICATION Spec
CONSTANTS
    Workspaces = {w1}
    Users = {u1, u2, u3}
    Invites = {i1, i2}
    Custom = {}
    Managing = {"owner", "admin"}
    Plans = {"free", "team"}
    Baseline = "free"
    SeatLimit <- LimitOf
    Team = {"team"}
    InFlight = 1
    MaxToken = 0
    MaxAuth = 1
    None = None
SYMMETRY Symmetry
INVARIANTS
    OneWayIn
    OneOwner
PROPERTIES
    SeatsFollowLedger
    OwnershipMoves
CHECK_DEADLOCK FALSE

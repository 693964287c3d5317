\* Two workspaces, a custom role: accounts that close while they own one and belong to another.
SPECIFICATION Spec
CONSTANTS
    Workspaces = {w1, w2}
    Users = {u1, u2}
    Invites = {i1}
    Custom = {c1}
    Managing = {"owner"}
    Plans = {"team"}
    Baseline = "team"
    SeatLimit <- OneLimit
    Team = {"team"}
    InFlight = 1
    MaxToken = 1
    MaxAuth = 0
    None = None
SYMMETRY Symmetry
INVARIANTS
    SeatsAreMembers
PROPERTIES
    InvitationAnsweredOnce
CHECK_DEADLOCK FALSE

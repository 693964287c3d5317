\* One founder, two other identities, one custom role, one invitation at a time.
SPECIFICATION Spec
CONSTANTS
    Users = {f, u1, u2}
    Founder = f
    Legacy = {f}
    Presets = {"platform_admin"}
    PresetOf <- AdminPreset
    Custom = {c1}
    Invites = {i1, i2}
    InFlight = 2
    None = None
    Consultations = {}
SYMMETRY Symmetry
INVARIANTS
    SuperRemains
    NoSecondWayIn
PROPERTIES
    SupersByPeers
CHECK_DEADLOCK FALSE

\* Two workspaces, two identities, two job processes working from stale lists.
SPECIFICATION ServiceSpec
CONSTANTS
    Workspaces = {w1, w2}
    Users = {u1, u2}
    Subs = {s1, s2}
    Workers = {k1, k2}
    Relaunched = {k1, k2}
    pro = pro
    basic = basic
    Plans <- MCPlans
    Price <- MCPrice
    TrialDays <- ShortTrial
    Period = 1
    Batch = 1
    Lag = 0
    MaxTime = 1
    None = None
INVARIANTS
    TrialConsumedOnce
PROPERTIES
    ContractsFillSlot
SYMMETRY Symmetry
CHECK_DEADLOCK FALSE

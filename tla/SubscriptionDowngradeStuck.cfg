\* A downgrade whose new start is not before the end of the trial kept as history.
SPECIFICATION FairSpec
CONSTANTS
    Workspaces = {w1}
    Users = {u1}
    Subs = {s1}
    Workers = {k1}
    Relaunched = {k1}
    pro = pro
    basic = basic
    Plans <- MCPlans
    Price <- MCPrice
    TrialDays <- ShortTrial
    Period = 2
    Batch = 1
    Lag = 0
    MaxTime = 2
    None = None
PROPERTIES
    DueDowngradeApplied
CHECK_DEADLOCK FALSE

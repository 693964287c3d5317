\* One workspace, one contract, two identities, two job processes that overlap, late or killed.
SPECIFICATION FairSpec
CONSTANTS
    Workspaces = {w1}
    Users = {u1, u2}
    Subs = {s1}
    Workers = {k1, k2}
    Relaunched = {k1}
    pro = pro
    basic = basic
    Plans <- MCPlans
    Price <- MCPrice
    TrialDays <- LongTrial
    Period = 1
    Batch = 1
    Lag = 1
    MaxTime = 2
    None = None
INVARIANTS
    TypeOK
    AccessWithinTerm
PROPERTIES
    JobsNeverWithdrawAccess
    DowngradeStillAsked
    DueContractsProcessed
CHECK_DEADLOCK FALSE

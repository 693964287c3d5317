\* A scheduler and a manager on two logs deleted one by one, against one failure.
\* The system may stop: the clock and the versions of the policy are bounded.
SPECIFICATION Spec
CONSTANTS
    Schedulers = {s1}
    Managers = {m1}
    Logs = {l1, l2}
    Executions = {e1, e2}
    Configs <- MCTwoBatches
    Lease = 1
    MaxTime = 2
    MaxPolicies = 1
    MaxFaults = 1
    None = None
INVARIANTS
    ExclusiveProgress
    AffectedAccounted
PROPERTIES
    ClosedStaysClosed
    RetentionKept
CHECK_DEADLOCK FALSE

\* Two processes of the job on one version of the policy, against one
\* failure.  The system may stop: its clock and its policies are bounded.
SPECIFICATION FairSpec
CONSTANTS
    Schedulers = {s1, s2}
    Managers = {}
    Logs = {l1}
    Executions = {e1, e2}
    Configs <- MCOneBatch
    Lease = 1
    MaxTime = 2
    MaxPolicies = 1
    MaxFaults = 1
    None = None
INVARIANTS
    ScheduledCadence
PROPERTIES
    RunningIsClosed
CHECK_DEADLOCK FALSE

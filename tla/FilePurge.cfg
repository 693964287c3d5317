\* Two files, one purge process and one request, against one failure.
SPECIFICATION FairSpec
CONSTANTS
    f1 = f1
    f2 = f2
    Files = {f1, f2}
    Jobs = {j1}
    Requests = {r1}
    Size <- MCSize
    Limits = {2}
    UploadLimits = {Unlimited}
    Unlimited = Unlimited
    Retention = 2
    Lease = 1
    TemporaryAge = 1
    BatchSize = 1
    MonthLength = 2
    MaxTime = 3
    MaxFaults = 1
    MaxContracts = 1
    None = None
INVARIANTS
    ContentBacksDocument
    CountersMatchDocuments
    RefusedUploadLeavesNothing
PROPERTIES
    RetentionHonoured
    ImplementsFileLife
    DueFilesArePurged

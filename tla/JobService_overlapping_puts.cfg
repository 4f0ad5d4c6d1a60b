\* One job and two overlapping PUTs.
SPECIFICATION Spec
CONSTANTS
    alice = alice
    NoJob = NoJob
    Jobs = {j1}
    Users = {alice}
    Owner <- MCOwner
    MaxJobsPerUser = 1
    RateLimitPerHour = 2
    Hour = 1
    JobTimeout = 1
    UploadTimeout = 1
    Retention = 3
    MaxAge = 4
    Workers = {w1, w2}
    Uploaders = {p1, p2}
    Cancellers = {}
    Judged = {j1}
    JudgeTimeout = 1
    WriteTime = 1
INVARIANT QueuedHasZip

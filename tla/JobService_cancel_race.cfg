\* One job, one cancel request: the row is read, then acted on after an await.
SPECIFICATION Spec
CONSTANTS
    alice = alice
    NoJob = NoJob
    Jobs = {j1}
    Users = {alice}
    Owner <- MCOwner
    MaxJobsPerUser = 1
    RateLimitPerHour = 2
    Hour = 1
    JobTimeout = 1
    UploadTimeout = 1
    Retention = 3
    MaxAge = 4
    Workers = {w1, w2}
    Uploaders = {p1}
    Cancellers = {c1}
    Judged = {j1}
    JudgeTimeout = 1
    WriteTime = 1
PROPERTY CancelsOnlyWaiting

\* Two jobs of one user, two workers, one PUT and one cancel at a time, deaths of the process.
SPECIFICATION Spec
CONSTANTS
    alice = alice
    NoJob = NoJob
    Jobs = {j1, j2}
    Users = {alice}
    Owner <- MCOwner
    MaxJobsPerUser = 2
    RateLimitPerHour = 2
    Hour = 1
    JobTimeout = 1
    UploadTimeout = 1
    Retention = 3
    MaxAge = 4
    Workers = {w1, w2}
    Uploaders = {p1}
    Cancellers = {c1}
    Judged <- MCJudged
    JudgeTimeout = 1
    WriteTime = 1
SYMMETRY WorkerSymmetry
INVARIANTS TypeOK OneHolder InputIntact NoOrphanDirectory
PROPERTIES UsesStore ReportKept

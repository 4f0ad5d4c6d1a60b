\* Ids of two accounts; one active job and two jobs per hour (of two ticks) each.
SPECIFICATION StoreSpec
CONSTANTS
    alice = alice
    bob = bob
    Jobs = {j1, j2, j3, j4}
    Users = {alice, bob}
    Owner <- MCOwner
    MaxJobsPerUser = 1
    RateLimitPerHour = 2
    Hour = 2
    JobTimeout = 1
    UploadTimeout = 1
    Retention = 2
    MaxAge = 4
SYMMETRY MCSymmetry
INVARIANTS StoreTypeOK ActiveQuota RateLimit
PROPERTIES OnlyForward

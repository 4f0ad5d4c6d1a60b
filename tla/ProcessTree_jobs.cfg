\* Three jobs and four JVMs, under LiveSpec.
SPECIFICATION LiveSpec
CONSTANTS
    MaxJobs = 3
    MaxJvms = 4
INVARIANTS TypeOK FewJvms
PROPERTY JvmHangEndsJob
CHECK_DEADLOCK FALSE

\* Three workers and four uploads, under LiveSpec.
SPECIFICATION LiveSpec
CONSTANTS
    Workers = {w1, w2, w3}
    MaxUploads = 4
INVARIANTS TypeOK NoLostWakeUp
PROPERTY FreeWorkerTakesJob

\* Two jobs at once, two rows each, a budget of two calls, two threads, LiveSpec.
SPECIFICATION LiveSpec
CONSTANTS
    Batches = {b1, b2}
    MaxRows = 2
    MaxItems = 1
    Concurrency = 2
    Cap = 2
    LastDay = 1
INVARIANTS TypeOK OneResultPerItem WithinBudget TwicePerCharge GapsAreNoted
PROPERTIES ResultsFrozen SilentWhenDone BatchEnds
CHECK_DEADLOCK FALSE

SPECIFICATION Spec
CONSTANTS
    t1 = t1
    Threads <- OneThread
    localLimit = 2
    windowSizeMs = 4
    Margin = 1
    MaxOffset = 1
    MaxTime = 12
    MaxReleases = 8
INVARIANTS OneOverLimit SleepBounded
CHECK_DEADLOCK FALSE

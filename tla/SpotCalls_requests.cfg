SPECIFICATION CallsSpec
CONSTANTS
    t1 = t1
    k1 = k1
    k2 = k2
    stream = stream
    Threads <- OneThread
    ApiKeys <- TwoKeys
    ListenKeys <- OneStream
    Null = Null
    localLimit = 1
    windowSizeMs = 3
    Margin = 1
    MaxOffset = 1
    MaxTime = 6
    MaxReleases = 4
INVARIANTS OneOverAtExchange FreshWhenSent ReturnsWhatWasDone
CHECK_DEADLOCK FALSE

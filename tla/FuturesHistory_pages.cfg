SPECIFICATION LiveSpec
CONSTANTS
    Traded <- MCTraded
    IntervalS = 2
    Ranges <- MCRanges
    PageLimit = 2
    Now <- MCNow
    MaxNow = 15
INVARIANTS Complete OnlyClosed
PROPERTIES GrowsBackward Terminates
CHECK_DEADLOCK FALSE

SPECIFICATION LiveSpec
CONSTANTS
    Markets <- MCMarkets
    Readings = {TRUE, FALSE}
    intervalMs = 2
    limit = 3
    Ranges <- MCRanges
    now = 20
INVARIANTS Complete
PROPERTIES GrowsBackward Terminates
CHECK_DEADLOCK FALSE

SPECIFICATION RatesSpec
CONSTANTS
    SettleTimes <- MCSettleTimes
    pageSize = 2
    Ranges <- MCRanges
    Known = {0, 3, 4, 5}
    MaxSettled = 7
INVARIANTS RatesTypeOK NothingLost SortedInRange FewRepeated
CHECK_DEADLOCK FALSE

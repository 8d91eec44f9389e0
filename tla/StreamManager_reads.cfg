SPECIFICATION LiveSpec
CONSTANTS
    ETH_USDT = ETH_USDT
    Min1 = Min1
    r1 = r1
    BTC_USDT = BTC_USDT
    Null = Null
    Pair = {ETH_USDT, BTC_USDT}
    CandleInterval = {Min1}
    Readers = {r1}
    MaySendBad = TRUE
    DestroyWhileReading = FALSE
    Timeouts = {0, 1}
    TriesPerSecond = 2
    SleepMs = 3
    MsPerSecond = 10
    MaxEvents = 3
INVARIANTS CacheIsLatest NoTornRead BlocksAtMostTimeout
PROPERTY ReadsReturn
CHECK_DEADLOCK FALSE

SPECIFICATION LiveSpec
CONSTANTS
    ticker = ticker
    kline = kline
    btc = btc
    eth = eth
    latin1 = latin1
    Null = Null
    Request <- TopicsAndBad
    Serialisable <- Topics
    SymbolAtTop = FALSE
    AppCloses = FALSE
    HandlersThrow = FALSE
    MaxRequests = 3
    MaxPings = 1
    MaxCloses = 1
INVARIANTS BookedRight HeartbeatWhileOpen
PROPERTY QueuedIsWritten
CHECK_DEADLOCK FALSE

SPECIFICATION LiveSpec
CONSTANTS
    ticker = ticker
    kline = kline
    btc = btc
    eth = eth
    latin1 = latin1
    Null = Null
    Request <- TickerAndBad
    Serialisable <- Ticker
    SymbolAtTop = FALSE
    AppCloses = TRUE
    HandlersThrow = TRUE
    MaxRequests = 3
    MaxPings = 1
    MaxCloses = 2
INVARIANTS OneChain NoEmptyFrame SubscribedWasSent
PROPERTIES SendsInOrder QueuedIsWritten CancelledIsReleased
CHECK_DEADLOCK FALSE

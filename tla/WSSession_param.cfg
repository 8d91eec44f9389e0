SPECIFICATION Spec
CONSTANTS
    ticker = ticker
    kline = kline
    btc = btc
    eth = eth
    latin1 = latin1
    Null = Null
    Request <- Tickers
    Serialisable <- Tickers
    SymbolAtTop = FALSE
    AppCloses = FALSE
    HandlersThrow = FALSE
    MaxRequests = 3
    MaxPings = 1
    MaxCloses = 2
INVARIANT DropsOnlyConfirmed
CHECK_DEADLOCK FALSE

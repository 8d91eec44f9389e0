SPECIFICATION StreamsLive
CONSTANTS
    t1 = t1
    t2 = t2
    ticker = ticker
    btc = btc
    eth = eth
    Threads <- TwoThreads
    NoThread = NoThread
    HandlersThrow = TRUE
    Request <- TwoStreams
    Serialisable <- TwoStreams
    Null = Null
    NoCall = NoCall
    SymbolAtTop = FALSE
    AppCloses = FALSE
    MaxAsks <- OneEach
    MaxRequests = 2
    MaxPings = 1
    MaxCloses = 1
INVARIANTS OneIoThread SubscribedInThisSession
PROPERTIES ImplementsClient StopEndsRun ServedIfRetried AskedIsWritten
CHECK_DEADLOCK FALSE

# TLA+ models of the MEXC C++ API

Specifications of the parts of `mexc_cpp_api` that have state and interleavings,
the TLC runs that check them, and proofs that TLAPS checks. Paths are relative to
the repository (`src/...`); line numbers are of the commit the models were written from.

Check a run with `tlc -config <run>.cfg <MC module>.tla`, the proofs with
`tlapm <module>_proofs.tla`.

## 1. The system

A client library for the MEXC exchange: a WebSocket feed for futures with a cache
in front of it, REST clients for spot and futures, and a connector that adapts the
futures client to a common interface.

| Part | State it keeps | Operations |
|---|---|---|
| `WebSocketSession` (`mexc_futures_ws_session.cpp`) | request queue, one slot for the request whose reply is awaited, confirmed subscriptions, read buffer, ping timer, the connection | `run`, `subscribe`, `isSubscribed`, `close`; handlers `onResolve` ... `onRead`, `onWrite`, `onPingTimer`, `onClose` |
| `WSClient` (`mexc_futures_ws_client.cpp`) | io_context, thread handle, atomic `m_isRunning`, weak pointer to the session | `run`, `subscribe`, `isSubscribed`, setters, destructor |
| `WSStreamManager` (`mexc_ws_stream_manager.cpp`) | last ticker per pair, last candle per pair and interval, timeout, two mutexes | `subscribe...Stream`, `readEvent...`, `setTimeout`, data callback, destructor |
| `RateLimiter` (in both REST clients) | deque of time stamps, a mutex | `wait` |
| Spot `RESTClient` (`mexc_spot_rest_client.cpp`) | HTTP session, rate limiter | server time, prices, listen keys (created, listed, renewed, closed), candle download |
| Futures `RESTClient` (`mexc_futures_rest_client.cpp`) | HTTP session, rate limiter | orders, positions, candle and funding-rate pages, other queries |
| HTTP sessions | keys or token | sign and send one request |
| `MEXCFuturesExchangeConnector` | the futures client | `login`, `placeOrder`, `getPositionInfo`, candle and funding-rate downloads |
| Data models | none | JSON in and out |

How they interact. The application's threads call the manager, which asks the
client, which hands requests to the session. One thread, started by `WSClient::run()`,
runs every handler of the session and the manager's data callback. Shared between the
two sides are the session's queue and subscriptions (`subscriptionLocker`), the flag and
the handle of the thread (no lock), and the manager's maps (one lock each). REST calls
run on the caller's thread; callers share the rate limiter.

What is hard: the application may call between any two steps of a handler; the flag that
says whether a thread runs is set and reset from both sides; asynchronous operations
complete in any order and may fail; the server's replies carry no request identity;
sessions end and are made anew behind the manager's back; a request reaches the exchange
later than the limiter let it go; pages of a download are fetched at different times from an
exchange that goes on trading; stamps are taken from a clock that may be set; an exception may
leave a handler or a call half way through (strings that are no UTF-8, the application's log function).
`PROJECT.json` lists the hazards line by line.

## 2. What makes each part correct

* Session: one read or write at a time; requests leave once and in order; a queued request
  is written while the feed delivers, unless an exception cuts the chain of handlers; replies are
  booked on the right request as long as no request is taken before the reply to the one before;
  the heartbeat lives as long as the connection; a session that ended is released.
* Client: at most one thread runs handlers; a session gets a thread; the destructor waits for the
  thread and returns, once the thread has restarted the io_context and if no handler throws then.
* Manager: caches hold the last good event; no reader sees half an event; reads end in time.
* Manager, client and session together: a stream whose calls get past `subscribe()` is requested
  from the server, whatever sessions and threads end in between; what was subscribed in an earlier
  session does not count for the present one. The first is so only until an exception leaves an open
  connection without a chain, and where line 50 of the session does not drop the request for another
  of the same method: for the requests `toJson()` makes it may (section 4).
* Rate limiter: the limit per window; no unbounded sleep.
* REST calls: what is sent is stamped freshly; one limiter keeps its limit where the exchange counts, but
  for one request; a call returns only what was done.
* Orders: a call places its order at most once, and as it was meant (but for stop orders, which
  go out as market orders); a request carries the credentials of the last login.
* Downloads: pages join without hole or overlap; the result is the range (of the spot client, if answers
  begin with the oldest candle: but for single candles between two pages); the loop ends;
  a partial download leaves the writer with pages it can go on from.

## 3. Modules

| Module | Models | Remark |
|---|---|---|
| `RequestQueue` | what the session promises about requests: a first-in first-out queue | abstract specification |
| `WSSession` | `WebSocketSession` | implements `RequestQueue` (`SendsInOrder`) |
| `WSClient` | `WSClient`, with a session reduced to alive or not | |
| `Streams` | `subscribe...Stream()` of the manager, composed with `WSClient` and `WSSession` | implements `WSClient` (`ImplementsClient`) |
| `StreamManager` | `WSStreamManager`'s callback, readers and destructor | |
| `RateLimiter` | `RateLimiter::wait()` | |
| `SpotCalls` | the spot client's calls: limiter, session, exchange | extends `RateLimiter` and keeps to it (`CallsKeepLimiter`) |
| `BackwardDownload` | what a paged download promises whoever saves its pages | abstract specification |
| `FuturesHistory` | `getHistoricalPrices()` of the futures client, called by `getHistoricalCandles()` | implements `BackwardDownload` (`GrowsBackward`) |
| `SpotHistory` | `getHistoricalPrices()` of the spot client | implements `BackwardDownload` (`GrowsBackward`) |
| `FundingHistory` | `getHistoricalFundingRates()` of the connector | |
| `Orders` | `login()`, `getPositionInfo()` and `placeOrder()` of the connector, down to the HTTP session | |
| `SortedSets` | a set of numbers in ascending order | |
| `MC*` | small instances of the module of that name | |
| `*_proofs` | theorems | those about `SpotCalls` are in `RateLimiter_proofs`, those about `Streams` in `WSClient_proofs` (which instantiates `WSSession_proofs`), those about `Orders` and `FundingHistory` in `Connector_proofs` |

Definitions whose names have the form `X_Something` after a definition `X` and the comment
"Mutant" are broken variants of `X`. Nothing uses them: each shows that one property
notices one plausible mistake.

### WSSession

A handler of the io thread is an action (`OnResolve`, `OnWrite`, ...). `onRead()` takes
and releases `subscriptionLocker` up to three times, so it is three steps: the message
(`OnReadAck`, `OnReadNack`, `OnReadData`, `OnReadMalformed`, `OnReadError`), then
`OnReadPump` (`readSubscription()`), then `OnReadQuit` (the test for "no subscriptions");
`handler` says which is next. The application's `Run`, `Subscribe` and `Close` may come
between them. `pending` counts asynchronous operations that were started and whose
handler has not run; their outcomes are the environment's choice. `held` and `Kept` are
the two kinds of shared pointers: those of callers (`WSClient` locks its weak pointer for
a call) and those captured by handlers.

Undefined behaviour is a choice: which outcome the duplicate check has when the compared keys are
missing (`Outcomes`), and whether the text of a frame is still there when a suspended write reads it
(`Frame`'s `text`). `SymbolAtTop` tells the two shapes of a request apart: `WSSubscription::toJson()` puts
the symbol under `param`, while `writeSubscription()` looks at the top level.

The server may send anything at any time: data, a reply, a message that is no JSON (`OnReadMalformed`).
`crossed` is a history variable: it becomes TRUE when `readSubscription()` takes a request while the reply
to the one before is due, and so overwrites the slot. `replied` counts the frames the server has dealt with.

Exceptions. `dump()` throws for a request with a string that is no UTF-8 (one outside `Serialisable`).
`readSubscription()` catches that after it has filled the slot, removes the request and returns an empty
string: `onHandshake()` writes it (a frame with the text "empty"), `onRead()` takes it for an empty queue. The
refusal of such a request throws in `handleApiControlMsg()`, where `onRead()` catches it and closes (`Reject`). `writeSubscription()`
throws at a null entry of the list (`Outcomes`' "thrown"). With `HandlersThrow` the application's log
function or data callback may throw as well, with an exception `onRead()` does not catch: `Thrown` has one
disjunct for each place, with the part of the handler that is skipped. In the middle of a message, that leaves an
open connection with no operation outstanding and the ping timer armed (`Cut`).

Left out: the host name, the logging, the "ping expired" warning and its two time stamps.

### WSClient

Two kinds of processes: the application thread (`app` is its program counter) and io threads
(`thread`). Every access to `m_isRunning`, `stopped()` and the handle is a step of its own, so
`run()` is `RunCheck`, `RunSet`, `RunJoin`, `RunSpawn`, and the thread's loop `LoopBegin`,
`LoopRestart`, `RunReturns` or `RunThrows`, `LoopBreak`, `ThreadEnds`. The io_context is
external: its `run()` returns when it is stopped or out of work, and then it is stopped. An exception
(`RunThrows`) may also leave a handler that was in progress when the destructor stopped the io_context: the loop
then restarts it, and `join()` waits for as long as the connection lives. `StopEndsRun` excepts that case
by name (`Threw`). One application thread: the class has no lock for several.

### Streams

`subscribeTickerStream()` and `subscribeCandlestickStream()` ask `isSubscribed()` (`Ask`),
call `subscribe()` if the answer was no, which finds a session (`SubscribeMore`) or makes one
(`SubscribeAnew`, with the new session's state in `SessionMade`), and call `run()` in either
case (`ManagerRuns`); `call` says where the call is. `subscribe()` may throw, at a null entry or as it
logs (`SubscribeMore`, `CallThrows`): the exception leaves the manager's call, before `run()`. The rest is the modules below:
`ClientRuns`, `LoopGoes` and `LoopReturns` are the steps of `WSClient`, `Handler` and `Environment`
those of the instance `S` of `WSSession`. They are tied together by what the code does: a handler
runs only in a thread inside `io_context::run()` (`Serving`); `run()` returns between handlers;
the weak pointer sees a session as long as an operation keeps it (`SessionFollows`, `Kept`); an
exception out of a handler skips the rest of it (`Thrown` of `WSSession`) and begins the loop anew
(`HandlerThrows`); the destructor takes the operations with the io_context (`Destroy`).

### RateLimiter

A call that does not sleep is `WaitReturns`; one that does is `WaitSleeps` and `WaitWakes`,
with the mutex free in between. `steady` is real time; `offset` is how far `system_clock`
is ahead of it, and `ClockSet` changes it. `released` is a history of the calls' returns.

### SpotCalls

A call is `Begin`, `Wait` (the limiter's one or two steps), `CreateRequest` (with `Sign` for all
but the public ones), `Write` after a connect and a handshake of any length, then `Returns` or
`Throws`; `call` is its program counter, one for each thread. The exchange `Performs` or
`Refuses` what was written, the latter with a bad status or with status 200 and a code in the body;
an answer that is lost is a `Throws` after it. A user data stream the exchange has open may
run out (`StreamExpires`). `SetCredentials` comes between calls only: during one it
is a data race. A signature is a record of the secret and the parameters it covers.

### StreamManager

The io thread fills a cached ticker in place, so a ticker event takes three steps
(`TickerBegins`, `TickerBid`, `TickerAsk`) under the lock; two fields stand for eleven.
`TickerThrows` is an event with a bad field. A candle is built aside and stored whole: one
step. `stop()` does not interrupt a handler: an event that was being read when the destructor came is still
handled. A reader's loop is `ReadFinds`, `ReadMisses` (count, sleep), `ReadGivesUp`. The header
speaks of a force parameter that re-subscribes; there is none in the code.

### FuturesHistory, SpotHistory, FundingHistory

The loops, one turn per `Batch` (or `PageNext`), with the request (`Fetch`) a step of its own and
`Throws` wherever an exception can leave. A candle is its open time, a rate its settlement time.
The futures model has the exchange's clock run on between pages (`Tick`) and the conversions
between seconds and milliseconds; in the spot model a behaviour fixes one market (`traded`) and
one reading of the undocumented question which candles an answer has when the span holds more
than the limit (`fromStart`): `mexc_spot_rest_client.cpp:155` says the oldest, a span of which a page asks for
one more than fits. The header's "last incomplete candle is removed" is not so (`OnlyClosed`, section 4), and `Complete`
says nothing of the open candle. That candles are an interval or more apart does not hold of months; the paging does not
depend on it there, as no range has a page of them (1000 months). In the funding model rates are settled between pages (`Settle`),
which moves every later page. `written` is a history of what the writer callback was given.

The first two implement `BackwardDownload`: a page only ever extends what is saved towards older
candles, and never overlaps it; where answers have the newest candles of what was asked for
(`gapless`) it leaves nothing out. What the writer has is thus a suffix of the range
at any moment, also when a later page throws.

### Orders

One thread uses the connector. `placeOrder()` is `PlaceOrder` (the call, or `ClosePosition` for an application that closes
what was reported to it), `Post` (rate limiter, authentication, connecting, writing) or `PostThrows`, and
`CallReturns` or `CallThrows`. The exchange takes a written request at any later time (`Accepts`, `Refuses`), also when
the call has thrown and the connector has logged in as somebody else. A request in `transit` or `accepted` carries, as history,
the order and the login it was made from. A market order with a time in force goes out as that type, a stop order
as a market order. Left out: quantities, margin and leverage, the digests of the signature, the
rate limiter's wait.

## 4. Runs

| Run | Shows | Bounds |
|---|---|---|
| `WSSession_feed` | `OneChain`, `NoEmptyFrame`, `SubscribedWasSent`, `SendsInOrder`, `QueuedIsWritten`, `CancelledIsReleased`, with closing, crossing data and handlers that throw | a request and one that cannot be serialised, accepted 3 times in all, 1 ping and 2 closes outstanding: a request before, at and after the reply to another |
| `WSSession_replies` | `BookedRight`, `HeartbeatWhileOpen`, `QueuedIsWritten` if nobody calls `close()` and handlers do not throw (so that a cut chain is no excuse), with data before and between replies | requests of 2 methods and one that cannot be serialised, accepted 3 times in all, 1 ping and 1 close outstanding |
| `WSSession_param` | `DropsOnlyConfirmed` is violated for requests as `toJson()` makes them | 2 streams of one method, accepted 3 times in all |
| `Streams_calls` | `OneIoThread`, `SubscribedInThisSession`, `ImplementsClient`, `StopEndsRun`, `ServedIfRetried`, `AskedIsWritten`, with sessions that end, and handlers and calls that throw | 2 streams of one method, each queued once in a session (`MaxAsks`), 2 thread identities (the one that runs and the one before it), 1 ping and 1 close outstanding; any number of sessions, one after the other |
| `WSClient_lostwakeup` | `SubscribedIsServed` is violated | 3 thread identities |
| `RateLimiter_single` | `OneOverLimit`, `SleepBounded` | 1 thread, limit 2, window 4, margin 1, the clock off by up to 1, 12 ticks (three windows) |
| `SpotCalls_requests` | `OneOverAtExchange`, `FreshWhenSent`, `ReturnsWhatWasDone` | 1 thread, limit 1, window 3, margin 1, the clock off by up to 1, 6 ticks, 4 calls (one past limit and excess, with and without a sleep), 2 keys, 1 data stream |
| `StreamManager_reads` | `CacheIsLatest`, `NoTornRead`, `BlocksAtMostTimeout`, `ReadsReturn` | 2 pairs, 3 events (new, in place, bad), 1 reader (readers share nothing they write), timeouts 0 and 1, 2 tries per second |
| `FuturesHistory_pages` | `Complete`, `OnlyClosed`, `GrowsBackward`, `Terminates` | 6 candles of 2 s with a hole, pages of 2, ranges of every alignment |
| `SpotHistory_pages` | `Complete`, `GrowsBackward`, `Terminates` | dense and sparse trading, pages of 3, both readings, ranges of every alignment, also past the clock |
| `FundingHistory_pages` | `RatesTypeOK`, `NothingLost`, `SortedInRange`, `FewRepeated` | pages of 2, up to 7 settlements, 2 or more of which may come during the download |
| `Orders_calls` | `PlacedOnce`, `DoesWhatWasMeant`, `SentAsLoggedIn` | 2 keys, 4 orders of the application's own and the closing ones, 2 calls: one may be late while the other is made |

Type invariants are proved (section 5); one is in a run as well, `RatesTypeOK`, as it bounds the number of pages that
are asked for.

The limits of the code (10 requests, pages of 1000) only scale these; what matters is that a page is full,
not full and empty, that a window holds the limit and one more, and that a range starts and ends on, before
and after a candle.

Deadlock is not checked: each model may stop, when a download is done, a client destroyed, a session closed.

### Fairness

* `WSSession`: handlers that are ready run (the io_context is first-in first-out, hence strong fairness for
  those an `onRead()` in progress holds up), and operations complete: Beast's timeouts bound connecting and closing,
  and the feed is assumed to go on or break. Nothing is assumed of the application.
  `QueuedIsWritten` therefore does not show what a silent feed does to a queued request: it waits.
* `WSClient`: both threads are scheduled; no session is assumed to end. `RetrySpec` adds an application that goes on
  calling `run()`, as it does by calling the manager's `subscribe...Stream()`.
* `Streams`: both threads are scheduled (weak fairness of every step of a call and of the loop); the handlers of
  the chain of reads and writes run again and again if a thread serves them again and again; the application asks for
  some stream again and again, and not every such call throws as it logs. Nothing is assumed of pings, closes, exceptions
  out of handlers or which stream is asked for. `AskedIsWritten` is about calls that get past `subscribe()`, and excepts
  a lost connection, a chain that an exception has cut, and a request that line 50 of the session may drop.
* `StreamManager`: threads run on; a mutex that is free again and again is given to a waiting reader.
* Downloads: the calling thread runs on and requests are answered or fail.

### What the documentation says and the code does not do

The two violation runs above, and more statements which are in the modules under the heading "What the
documentation says and the code does not do". Name one in place of a run's properties to see its
counterexample (under PROPERTY if it has a `~>`, else under INVARIANT):

| Statement | Instance | What happens |
|---|---|---|
| `IsSubscribedIsTruthful` | `WSSession_feed` | data between a request and its reply lets the next request overwrite the slot, and the reply is booked on that one (`mexc_futures_ws_session.cpp:68`, `:107`) |
| `ConfirmedIsSubscribed` | `WSSession_replies` | equal requests queued twice: the refusal of the second erases the entry of the first (`mexc_futures_ws_session.cpp:98`) |
| `DropsOnlyConfirmed` | `WSSession_param` with `Request <- Klines`, `Serialisable <- Klines` and `SymbolAtTop = TRUE` | the second of two requests that differ in the interval alone is dropped as a duplicate (`:49`) |
| `SentAsRequested` | `WSSession_feed` | the frame's text is destroyed before a suspended write reads it (`:191`, `:248`) |
| `CloseEndsSession` | `WSSession_feed` | `close()` while connecting only fails (`:345`), and may cancel the ping timer of the connection made since (`:294`) |
| `SubscribeTakesEffect` | `WSSession_feed` | a failed write (`:201`), or an exception in the middle of a message, leaves the timer; the session lives on and accepts requests nobody writes |
| `RunDoesNotBlock` | `WSClient_lostwakeup` | the old thread's end resets the flag `run()` has set; the next `run()` joins the new thread (`mexc_futures_ws_client.cpp:53-57`, `:77`) |
| `DestructorReturns` | `WSClient_lostwakeup` | the thread restarts the stopped io_context and `join()` waits for the connection to end (`:39`, `:64`); with `HandlersThrow = TRUE` also after an exception of the handler that was in progress |
| `CachedIsReturned` | `StreamManager_reads` | the timeout 0 also means "being destroyed" (`mexc_ws_stream_manager.cpp:129`) |
| `ReadersLeaveFirst` | `StreamManager_reads` with `DestroyWhileReading = TRUE` | the destructor does not wait for readers it tells to stop (`:73`) |
| `LimitKept` | `RateLimiter_single` with `MaxOffset = 0` | the stamp recorded after a sleep is the one taken before it (`mexc_spot_rest_client.cpp:53`) |
| `PublicIsAnswered` | `SpotCalls_requests` | the public calls do not look at the code in the body: a refusal with status 200 returns a server time of 0, or no prices (`mexc_spot_rest_client.cpp:207`, `:220`) |
| `Unbroken` | `SpotHistory_pages` | a page of `limit + 1` candles from an exchange that counts from the start, as line 155 says it does (`mexc_spot_rest_client.cpp:195`): single candles between two pages are missing |
| `WithinRange` | `SpotHistory_pages` | the first page of a long range that ends ahead of the clock reaches back before the start (`:164`) |
| `OnlyClosed` | `SpotHistory_pages` | the spot download returns the open candle, which the header says is removed (`:200`) |
| `OneOverLimit` | `RateLimiter_single` with `SPECIFICATION LoginSpec` | `login()` makes a new limiter, which has seen no request (`mexc_futures_exchange_connector.cpp:58`) |
| `TypeKept` | `Orders_calls` | a stop order goes out as a market order (`mexc_futures_exchange_connector.cpp:103`) |
| `ThrownIsNotPlaced` | `Orders_calls` | the answer is lost, or is not a 200, after the exchange accepted the order |
| `PricedTypeHasPrice` | `Orders_calls` | a market order with a time in force is sent as IOC or FOK, without a price (`mexc_futures_exchange_connector.cpp:109`) |

The last three are not promised anywhere; a caller might expect them.

## 5. Proofs

TLAPS proves these for every value of the constants that the modules' assumptions admit.

* `WSSession_proofs`. `TypeCorrect`; `SingleChain` (`OneChain`), from the inductive `ChainInv`, which adds what
  phase of the connection each operation belongs to and that the first request is in the queue until the handshake;
  `EmptyFrameOnlyThen` (`NoEmptyFrame`) from the same invariant: the handshake's handler finds a request in the queue, and a later
  frame is written only for one that can be serialised; `HeartbeatLives` (`TimerInv`), assuming nobody calls `close()` and
  the log function does not throw; `RepliesAreBooked` (`BookedRight`, inductive with the types and `ChainInv`): without an assumption on the server, it
  says what holds until `crossed`; `SubscribedWereSent` (the slot holds a request that was sent, one that
  cannot be, or nothing); `ImplementsRequestQueue`: the initial state maps to the queue's, and each action is `Accept`,
  `Send`, the passing over of a request that cannot be serialised, or a stutter.
  That a step keeps an invariant is a lemma of its own for each (`ChainNext`, `TimerNext`, `SentNext`, `ReplyNext`), for
  the composition to cite. They cover the steps of `Thrown`.
* `WSClient_proofs`. `TypeCorrect`, `SingleIoThread`, `QuietAfterDtor`, from an
  inductive invariant that ties the application's program counter, the handle, and the flag together: the flag can be
  stale only while the handle's thread is not yet, or no longer, serving. `StreamsImplementsClient`: every step of the
  composition is one of `WSClient` or leaves its variables alone; in particular a session ends only in a handler, so in a
  thread inside `run()`. So the client's theorems hold of the composition (`StreamsSingleIoThread`).
* `WSClient_proofs`, of `Streams`. The instance `P` of `WSSession_proofs` carries the session's lemmas over: every step of the
  composition is to the present session a step of `WSSession`, the making of a new one (`SessionMade`, `MadeInv`), or its end
  with the client (`Destroy`, `GoneInv`); `SessionSteps` says so, and `SessionNext` that the invariants survive each. Hence,
  however many sessions come and go: `StreamsTypeCorrect`; `StreamsSingleChain` (one read or write at a time, no empty
  frame but the handshake's); `SubscribedInThisOne`; `ManagerIsToldTheTruth` (`BookedRight` of the present session); `StreamsHeartbeat`,
  assuming nobody calls `close()` and the log function does not throw. `HandlersAreServed` is about what ties the parts together: a handler in progress has a thread inside
  `run()`, so that by `OneIoThread` handlers exclude each other, and the weak pointer sees a session exactly as long as
  something keeps it.
* `StreamManager_proofs`. `TypeCorrect`; `CachesAreLatest`, from an invariant about the event in hand: while a
  ticker is filled the lock is taken, and the fields filled so far are the event's; `ReadsAreWhole`, as a reader
  copies under the same lock; `CallsAreBounded`: a call makes at most one try more than it computed when it began.
* `RateLimiter_proofs`. `TypeCorrect`; `SleepIsBounded` (no stamp is further ahead than the clock was ever set);
  `SingleThreadOneOver`: with one thread, and the clock never off, stamps interleave with the returns of calls (`Ages`), so
  that what was pruned is out of the window, and a sleep starts with exactly `localLimit` stamps and ends after the
  oldest expired (`Waiting`). Pruning is a prefix of the deque (`FirstLiveFacts`, `PrunedFacts`).
* `RateLimiter_proofs`, of `SpotCalls`. `CallsKeepLimiter`: the calls implement the limiter. `CallsTypeCorrect`.
  `ReturnedWasDone` for any number of threads, from `Answered` (an answer that passes says what was
  done). For one thread: `OneOverArrives`, from `Arrivals`: a request arrives after its own release and before the next one
  (`Before`), the last release is that of a call still under way, or arrived (`Gone`, `Due`), so that the
  window at the exchange is no fuller than one of releases; `StampedAfterWait` (`Fresh`).
* `SortedSets_proofs`. `SortedFacts` and `AscendingIsSorted`: the ascending sequence of a finite set exists and is the
  only one; the downloads' proofs rest on it.
* `FuturesHistory_proofs`. `TypeCorrect`; `DownloadComplete` and `ReturnsOnlyClosed`, from an invariant that says
  what is accumulated is every candle of the range from the oldest one on, and that whatever is older is in the
  range of the next page; `ImplementsBackwardDownload`; `SavedWithoutHole`, its consequence for the writer: at any time,
  after an exception too, what was saved is the newest candles of the range.
* `SpotHistory_proofs`. `TypeCorrect`; `DownloadComplete` (in the `Plain` case: trading in every interval, a range that has
  passed), for both readings of the answer. From the newest candles, a page leaves nothing out (`FullPage`); from the oldest, a span of
  `limit` intervals has at most one candle more than fits, so that only the newest is missing, and the one before it is
  there (`OneShort`). `PlainInv` says of what is accumulated that it has every candle of the range after the end of the next
  request, or the one before it (`Near`). `ImplementsBackwardDownload` and `SavedWithoutHole` are for any market and range (by the reading from the oldest on, no
  hole is excluded, but repetitions are).
* Both have the safety half of `Terminates`, `StepsAreBounded`: a natural number computed from the end of the next request
  (`Left`) falls with every step of the download, whatever the exchange answers.
* `Connector_proofs`, of `Orders`. `TypeCorrect`, `OrderPlacedOnce`, `MeaningKept`, `OrdersAsLoggedIn`, from an inductive invariant that adds: a
  call that has not written its request has nothing at the exchange (`Progress`), the session has the credentials of the
  last login (`LoggedIn`), a success was accepted (`Answered`), and an order that names a position is its closing order
  (`ClosesReported`).
* `Connector_proofs`, of `FundingHistory`. `NoRateLost`, `ReturnsSorted`, `RepeatsBounded` and `RatesTypeCorrect`, for any page
  size and any settlements in between, from the invariant `RatesInv`. Its core, `Seen(list, known, n)`, says of a moment when the
  exchange has `known` rates and page `n` is next that every wanted rate is in the list or still behind the pages so far
  (nothing is lost), and that the repetitions in the list, with the rates of the list that the next pages will show
  again (`Ahead`), are no more than the settlements since the first request. A settlement adds at most one of those and one to
  the other side (`SeenMoves`); a page turns some of them into repetitions (`AheadTaken`, `RepeatedGrows`). The page in hand is the one the exchange had at its
  request, which may be some settlements ago (`FetchedAt`). Sorting is by rank (`InOrder`): that it keeps the members,
  the repetitions and orders them is proved from the counts of `SortedSets_proofs` (`CountTo`, `DistinctCount`).

Only model-checked: liveness (`QueuedIsWritten`, `CancelledIsReleased`, `StopEndsRun`, `ServedIfRetried`,
`AskedIsWritten`, `ReadsReturn`, `Terminates`), which with its fairness is out of the prover's reach. Every safety and action
property of a passing run is a theorem.

## 6. Not modelled, and why

* `cancelOrders()` and the futures client's queries that only read: one request each, without state, of which
  nothing is said that `SpotCalls` and `Orders` do not say of theirs.
* Digests, header fields, TLS: no state.
* Signatures: `Sign` takes the parameters and the secret in one expression; what could go wrong there is the digest.
* A log function that throws in the catch block of the io thread (`mexc_futures_ws_client.cpp:72`) or in a destructor: `std::terminate`.
* A thread that cannot be created: `std::system_error` out of `run()`.
* Credentials or the connector's client replaced under another thread's request: undefined behaviour, no lock is there.
* The rate limiter in the order flow: `SpotCalls` has it for the same kind of call, `LoginSpec` what `login()` does to it.
* Field-by-field JSON conversion: no state.
* Setters of callbacks called while the io thread runs: a data race on `std::function`, with no outcome to choose from.
* Several application threads in `WSClient` and `Streams`: undefined behaviour at once (`m_ioThread`, `m_session` without a lock).
* Handlers of pings and closes capture `this` only; whether they may run after the session depends on Beast.
* A server that never answers: reads have no timeout, the calling thread stays (`mexc_http_futures_session.cpp:213`).
* Several threads in the rate limiter's bound: they exceed the limit by more than the number of threads; TLC finds
  no bound in small instances.
* The test programs: manual, against the live exchange.

## 7. Plan

Done, in this order: the session with its queue; the client; the limiter; the manager; the three downloads;
the order flow; the abstract download; manager, client and session composed; the spot client's calls; proofs of
every safety and action property.

Next:

1. What a window holds when `login()` makes a new limiter (`LoginSpec`): `OneOverLimit` and `OneOverAtExchange` are about one limiter and do
   not catch it. A bound by the number of logins, and its proof.
2. Orders and downloads on one limiter of the futures client, with `login()` in between.
3. A bound for several threads on one limiter, at the exchange.
4. `Streams` with the data callback and the caches: how long a cached event outlives its session.

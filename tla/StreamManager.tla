--------------------------- MODULE StreamManager ---------------------------
(***************************************************************************)
(* WSStreamManager: the caches of the last ticker and the last candles,    *)
(* written by the io_context's thread as events arrive and polled by the   *)
(* application's threads.                                                  *)
(*                                                                         *)
(* Subscribing goes on to the client and the session: see WSClient and     *)
(* WSSession.  Here every event the server likes to send may arrive.       *)
(*                                                                         *)
(* fromJson() assigns a ticker field by field, in place if the pair is     *)
(* already cached; two fields stand for the eleven.  The io thread holds   *)
(* instrumentInfoLocker while it does so.  A candle is built on the side   *)
(* and stored whole, so that its handler is one step.                      *)
(***************************************************************************)
EXTENDS Integers, FiniteSets

CONSTANTS
    Pair,                 \* trading pairs
    CandleInterval,       \* candle intervals
    Readers,              \* the application's threads
    Null,                 \* nothing
    MaySendBad,           \* TRUE: events may lack the type a field should have
    DestroyWhileReading,  \* TRUE: the manager may go while a thread reads
    Timeouts,             \* what setTimeout() may be given, in seconds
    TriesPerSecond,       \* 1 / 0.01 in the code
    SleepMs, MsPerSecond, \* 3 and 1000
    MaxEvents             \* bound: events in a behaviour

ASSUME ConstantAssumption ==
    /\ Timeouts \subseteq Int
    /\ {TriesPerSecond, SleepMs, MsPerSecond, MaxEvents} \subseteq Nat
    /\ (TriesPerSecond + 1) * SleepMs <= MsPerSecond
    /\ {MaySendBad, DestroyWhileReading} \subseteq BOOLEAN

VARIABLES
    tickers,              \* per pair: the cached ticker, or Null
    candlesticks,         \* per pair and interval: the cached candle, or Null
    timeout,              \* seconds
    ioThread,             \* the ticker event being handled, or Null
    phase,                \* how far the destructor is
    reading,              \* per reader: the call in progress, or Null
    returned,             \* history: per reader, what its last call returned
    events,               \* history: how many events the server has sent
    latest,               \* history: per key, the last good event handled
    spoiled               \* history: pairs whose last event was bad

cache == <<tickers, candlesticks, latest, spoiled>>
vars  == <<cache, timeout, ioThread, phase, reading, returned, events>>

TickerKey == [kind : {"ticker"}, pair : Pair]
CandleKey == [kind : {"kline"}, pair : Pair, interval : CandleInterval]
Key == TickerKey \cup CandleKey

Ticker  == [bid : Nat, ask : Nat]
Candle  == [event : Nat]
Filling == [pair : Pair, event : Nat, new : BOOLEAN, bidDone : BOOLEAN]
Call    == [key : Key, numTries : Nat, maxNumTries : Int, allowed : Int, there : BOOLEAN]
Result  == [key : Key, value : Ticker \cup Candle \cup {Null}, excused : BOOLEAN]

ASSUME NullAssumption == Null \notin Ticker \cup Candle \cup Filling \cup Call \cup Result

\* What a reader of the key finds in the maps.
Look(key) ==
    IF key.kind = "ticker" THEN tickers[key.pair]
    ELSE candlesticks[key.pair][key.interval]

TypeOK ==
    /\ tickers \in [Pair -> Ticker \cup {Null}]
    /\ candlesticks \in [Pair -> [CandleInterval -> Candle \cup {Null}]]
    /\ timeout \in Timeouts \cup {0}
    /\ ioThread \in Filling \cup {Null}
    /\ phase \in {"live", "stopping", "joined", "silenced", "freed"}
    /\ reading \in [Readers -> Call \cup {Null}]
    /\ returned \in [Readers -> Result \cup {Null}]
    /\ events \in Nat
    /\ latest \in [Key -> Nat]
    /\ spoiled \in SUBSET Pair

Init ==
    /\ tickers = [p \in Pair |-> Null]
    /\ candlesticks = [p \in Pair |-> [i \in CandleInterval |-> Null]]
    /\ timeout \in Timeouts
    /\ ioThread = Null
    /\ phase = "live"
    /\ reading = [r \in Readers |-> Null]
    /\ returned = [r \in Readers |-> Null]
    /\ events = 0
    /\ latest = [k \in Key |-> 0]
    /\ spoiled = {}

-----------------------------------------------------------------------------
(* The io thread: the data callback.                                       *)

\* After stop() an onRead that was in progress still hands over its event.
EventArrives ==
    /\ phase \in {"live", "stopping"} /\ ioThread = Null /\ events < MaxEvents
    /\ events' = events + 1

\* A push.ticker event: find() tells whether to fill the cached ticker.
TickerBegins(p) ==
    /\ EventArrives
    /\ ioThread' = [pair |-> p, event |-> events', new |-> tickers[p] = Null,
                    bidDone |-> FALSE]
    /\ UNCHANGED <<cache, timeout, phase, reading, returned>>

TickerBid ==
    /\ ioThread # Null /\ ~ioThread.bidDone
    /\ ioThread' = [ioThread EXCEPT !.bidDone = TRUE]
    /\ tickers' = IF ioThread.new THEN tickers
                  ELSE [tickers EXCEPT ![ioThread.pair].bid = ioThread.event]
    /\ UNCHANGED <<candlesticks, latest, spoiled, timeout, phase, reading,
                   returned, events>>

\* The last field; a new ticker is stored, and the lock is released.
TickerAsk ==
    /\ ioThread # Null /\ ioThread.bidDone
    /\ ioThread' = Null
    /\ tickers' = IF ioThread.new
                  THEN [tickers EXCEPT ![ioThread.pair] =
                           [bid |-> ioThread.event, ask |-> ioThread.event]]
                  ELSE [tickers EXCEPT ![ioThread.pair].ask = ioThread.event]
    /\ latest' = [latest EXCEPT ![[kind |-> "ticker", pair |-> ioThread.pair]] = ioThread.event]
    /\ spoiled' = spoiled \ {ioThread.pair}
    /\ UNCHANGED <<candlesticks, timeout, phase, reading, returned, events>>

\* A field has the wrong type: fromJson() throws, what it assigned stays.
TickerThrows ==
    /\ MaySendBad /\ ioThread # Null
    /\ ioThread' = Null
    /\ spoiled' = spoiled \cup {ioThread.pair}
    /\ UNCHANGED <<tickers, candlesticks, latest, timeout, phase, reading,
                   returned, events>>

\* Mutant: insert() keeps the candle that is there.
Kline_Insert(p, i) ==
    /\ EventArrives
    /\ candlesticks' = [candlesticks EXCEPT ![p][i] = IF @ = Null THEN [event |-> events'] ELSE @]
    /\ latest' = [latest EXCEPT ![[kind |-> "kline", pair |-> p, interval |-> i]] = events']
    /\ UNCHANGED <<tickers, spoiled, timeout, ioThread, phase, reading, returned>>

\* A push.kline event: insert_or_assign() under the pair and the interval.
Kline(p, i) ==
    /\ EventArrives
    /\ candlesticks' = [candlesticks EXCEPT ![p][i] = [event |-> events']]
    /\ latest' = [latest EXCEPT ![[kind |-> "kline", pair |-> p, interval |-> i]] = events']
    /\ UNCHANGED <<tickers, spoiled, timeout, ioThread, phase, reading, returned>>

\* A bad push.kline event: nothing was stored when it threw.
KlineThrows ==
    /\ MaySendBad /\ EventArrives
    /\ UNCHANGED <<cache, timeout, ioThread, phase, reading, returned>>

-----------------------------------------------------------------------------
(* The application's threads.                                              *)

SetTimeout(seconds) ==
    /\ phase = "live"
    /\ timeout' = seconds
    /\ UNCHANGED <<cache, ioThread, phase, reading, returned, events>>

\* Mutant: a try per millisecond.
maxNumTries_PerMs == timeout * (MsPerSecond \div SleepMs + 1)

maxNumTries == timeout * TriesPerSecond

ReadBegins(r, key) ==
    /\ phase = "live" /\ reading[r] = Null
    /\ reading' = [reading EXCEPT ![r] =
                      [key |-> key, numTries |-> 0, maxNumTries |-> maxNumTries,
                       allowed |-> timeout, there |-> Look(key) # Null]]
    /\ UNCHANGED <<cache, timeout, ioThread, phase, returned, events>>

\* Mutant: the reader does not take the lock.
MayLook_Unlocked(r) ==
    /\ reading[r] # Null
    /\ reading[r].numTries <= reading[r].maxNumTries /\ timeout # 0

\* The loop's conditions, and the lock of the map the reader looks in.
MayLook(r) ==
    /\ reading[r] # Null
    /\ reading[r].numTries <= reading[r].maxNumTries /\ timeout # 0
    /\ reading[r].key.kind = "ticker" => ioThread = Null

\* What makes up for a read of nothing, or of fields of two events.
Excused(r, value) ==
    \/ value = Null /\ ~reading[r].there
    \/ value # Null /\ reading[r].key.pair \in spoiled

Returns(r, value) ==
    /\ reading' = [reading EXCEPT ![r] = Null]
    /\ returned' = [returned EXCEPT ![r] =
                      [key |-> reading[r].key, value |-> value, excused |-> Excused(r, value)]]

ReadFinds(r) ==
    /\ MayLook(r) /\ phase # "freed" /\ Look(reading[r].key) # Null
    /\ Returns(r, Look(reading[r].key))
    /\ UNCHANGED <<cache, timeout, ioThread, phase, events>>

\* Mutant: a try is counted only when it has slept the whole second.
ReadMisses_NoCount(r) ==
    /\ MayLook(r) /\ phase # "freed" /\ Look(reading[r].key) = Null
    /\ UNCHANGED vars

\* The try is counted and the thread sleeps for SleepMs.
ReadMisses(r) ==
    /\ MayLook(r) /\ phase # "freed" /\ Look(reading[r].key) = Null
    /\ reading' = [reading EXCEPT ![r].numTries = @ + 1]
    /\ UNCHANGED <<cache, timeout, ioThread, phase, returned, events>>

ReadGivesUp(r) ==
    /\ reading[r] # Null /\ phase # "freed"
    /\ timeout = 0 \/ reading[r].numTries > reading[r].maxNumTries
    /\ Returns(r, Null)
    /\ UNCHANGED <<cache, timeout, ioThread, phase, events>>

-----------------------------------------------------------------------------
(* The destructor.  wsClient.reset() stops the io_context and joins its    *)
(* thread; then the timeout is set to 0; then the members are destroyed.   *)

DtorStop ==
    /\ phase = "live"
    /\ DestroyWhileReading \/ \A r \in Readers : reading[r] = Null
    /\ phase' = "stopping"
    /\ UNCHANGED <<cache, timeout, ioThread, reading, returned, events>>

DtorJoin ==
    /\ phase = "stopping" /\ ioThread = Null
    /\ phase' = "joined"
    /\ UNCHANGED <<cache, timeout, ioThread, reading, returned, events>>

DtorTimeout ==
    /\ phase = "joined"
    /\ phase' = "silenced" /\ timeout' = 0
    /\ UNCHANGED <<cache, ioThread, reading, returned, events>>

DtorFree ==
    /\ phase = "silenced"
    /\ phase' = "freed"
    /\ UNCHANGED <<cache, timeout, ioThread, reading, returned, events>>

Io == \/ \E p \in Pair : TickerBegins(p) \/ \E i \in CandleInterval : Kline(p, i)
      \/ TickerBid \/ TickerAsk \/ TickerThrows \/ KlineThrows

Read(r) == ReadFinds(r) \/ ReadMisses(r) \/ ReadGivesUp(r)

Next ==
    \/ Io
    \/ \E s \in Timeouts : SetTimeout(s)
    \/ \E r \in Readers : (\E key \in Key : ReadBegins(r, key)) \/ Read(r)
    \/ DtorStop \/ DtorJoin \/ DtorTimeout \/ DtorFree

Spec == Init /\ [][Next]_vars

\* A thread that runs goes on: the io thread with the event it has, a reader
\* with its loop.  The lock is free again and again, and a mutex that a thread
\* waits for is given to it at some time.
Fairness ==
    /\ WF_vars(TickerBid) /\ WF_vars(TickerAsk \/ TickerThrows)
    /\ \A r \in Readers : SF_vars(Read(r))

LiveSpec == Spec /\ Fairness

-----------------------------------------------------------------------------
(* Properties.                                                             *)

\* While no event is being handled, a cached ticker is the last good event of its
\* pair unless a bad one was merged into it, and a cached candle always is.
CacheIsLatest ==
    \A key \in Key :
        \/ Look(key) = Null /\ latest[key] = 0
        \/ key.kind = "kline" /\ Look(key) = [event |-> latest[key]]
        \/ /\ key.kind = "ticker"
           /\ \/ ioThread # Null /\ ioThread.pair = key.pair
              \/ key.pair \in spoiled
              \/ Look(key) = [bid |-> latest[key], ask |-> latest[key]]

\* A ticker that was read has all its fields from one event, although tickers are
\* filled in place while readers poll; only a bad event may have left a mixture.
NoTornRead ==
    \A r \in Readers :
        returned[r] # Null =>
            \/ returned[r].value \in Ticker => returned[r].value.bid = returned[r].value.ask
            \/ returned[r].excused

\* A call sleeps no longer than the timeout that was set when it began, or once,
\* whatever setTimeout() does meanwhile.
BlocksAtMostTimeout ==
    \A r \in Readers :
        reading[r] # Null /\ reading[r].numTries > 1 =>
            reading[r].numTries * SleepMs <= reading[r].allowed * MsPerSecond

\* A call to read an event returns, whether or not events come.
ReadsReturn == \A r \in Readers : reading[r] # Null ~> reading[r] = Null

-----------------------------------------------------------------------------
(* What the documentation says and the code does not do.                   *)

\* A call that found nothing did not find what was cached before it began.
CachedIsReturned ==
    \A r \in Readers :
        returned[r] # Null /\ returned[r].value = Null => returned[r].excused

\* When the manager is gone no thread is inside one of its functions.
ReadersLeaveFirst == phase = "freed" => \A r \in Readers : reading[r] = Null
=============================================================================

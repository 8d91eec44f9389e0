------------------------ MODULE StreamManager_proofs ------------------------
(* Theorems about StreamManager, for every number of pairs, intervals, readers and *)
(* timeouts, with bad events and with readers that outlive the manager.            *)
EXTENDS StreamManager, TLAPS

-----------------------------------------------------------------------------
(* Type correctness. *)

LEMMA LookType ==
  ASSUME TypeOK, NEW key \in Key
  PROVE  Look(key) \in Ticker \cup Candle \cup {Null}
  BY DEF TypeOK, Look, Key, TickerKey, CandleKey

LEMMA KeyFacts ==
  /\ \A p \in Pair : [kind |-> "ticker", pair |-> p] \in Key
  /\ \A p \in Pair, i \in CandleInterval : [kind |-> "kline", pair |-> p, interval |-> i] \in Key
  /\ \A key \in Key : key.pair \in Pair
  /\ \A key \in Key : \/ key.kind = "ticker" /\ key = [kind |-> "ticker", pair |-> key.pair]
                      \/ key.kind = "kline" /\ key.interval \in CandleInterval
  <1>1. \A p \in Pair : [kind |-> "ticker", pair |-> p] \in Key
    BY DEF Key, TickerKey
  <1>2. \A p \in Pair, i \in CandleInterval : [kind |-> "kline", pair |-> p, interval |-> i] \in Key
    BY DEF Key, CandleKey
  <1>3. \A key \in TickerKey : /\ key.pair \in Pair /\ key.kind = "ticker"
                              /\ key = [kind |-> "ticker", pair |-> key.pair]
    BY DEF TickerKey
  <1>4. \A key \in CandleKey : key.pair \in Pair /\ key.kind = "kline" /\ key.interval \in CandleInterval
    BY DEF CandleKey
  <1> QED BY <1>1, <1>2, <1>3, <1>4 DEF Key

\* A ticker that is filled in place is there.
TypeInv == TypeOK /\ (ioThread # Null /\ ~ ioThread.new => tickers[ioThread.pair] # Null)

LEMMA InitType == Init => TypeInv
  BY NullAssumption DEF Init, TypeOK, TypeInv

LEMMA IoType == ASSUME TypeInv, Io PROVE TypeInv'
  <1>0. TypeOK
    BY DEF TypeInv
  <1>1. ASSUME NEW p \in Pair, TickerBegins(p) PROVE TypeInv'
    <2>1. ioThread' \in Filling /\ (~ ioThread'.new => tickers'[ioThread'.pair] # Null)
      <3> DEFINE isNew == tickers[p] = Null
      <3>1. isNew \in BOOLEAN
        BY Zenon
      <3>2. tickers' = tickers /\ (~ isNew => tickers[p] # Null) /\ events' \in Nat
        BY <1>0, <1>1 DEF TypeOK, TickerBegins, EventArrives, cache
      <3>3. ioThread' = [pair |-> p, event |-> events', new |-> isNew, bidDone |-> FALSE]
        BY <1>1 DEF TickerBegins
      <3> HIDE DEF isNew
      <3> QED BY <3>1, <3>2, <3>3 DEF Filling
    <2> QED BY <1>0, <1>1, <2>1 DEF TypeInv, TypeOK, TickerBegins, EventArrives, cache
  <1>2. ASSUME NEW p \in Pair, NEW i \in CandleInterval, Kline(p, i) PROVE TypeInv'
    <2>1. events' \in Nat /\ [event |-> events'] \in Candle
      BY <1>0, <1>2 DEF TypeOK, Kline, EventArrives, Candle
    <2>2. candlesticks' \in [Pair -> [CandleInterval -> Candle \cup {Null}]]
      BY <1>0, <1>2, <2>1 DEF TypeOK, Kline
    <2>3. latest' \in [Key -> Nat]
      BY <1>0, <1>2, <2>1 DEF TypeOK, Kline
    <2> QED BY <1>0, <1>2, <2>1, <2>2, <2>3 DEF TypeInv, TypeOK, Kline
  <1>3. ASSUME ioThread # Null PROVE ioThread \in Filling /\ ioThread.pair \in Pair /\ ioThread.event \in Nat
    BY <1>0, <1>3 DEF TypeOK, Filling
  <1>4. ASSUME ioThread # Null, ~ ioThread.new PROVE tickers[ioThread.pair] \in Ticker
    BY <1>0, <1>3, <1>4 DEF TypeInv, TypeOK
  <1>5. CASE TickerBid
    <2>1. ioThread' \in Filling /\ ioThread'.pair = ioThread.pair /\ ioThread'.new = ioThread.new
      BY <1>3, <1>5 DEF TickerBid, Filling
    <2>2. CASE ioThread.new
      BY <1>0, <1>5, <2>1, <2>2 DEF TypeInv, TypeOK, TickerBid
    <2>3. CASE ~ ioThread.new
      <3> DEFINE q == ioThread.pair
                 full == [tickers[q] EXCEPT !.bid = ioThread.event]
      <3>1. tickers' = [tickers EXCEPT ![q] = full]
        BY <1>5, <2>3 DEF TickerBid
      <3>2. full \in Ticker
        BY <1>3, <1>4, <1>5, <2>3 DEF TickerBid, Ticker
      <3>3. q \in Pair
        BY <1>3, <1>5 DEF TickerBid
      <3> HIDE DEF full
      <3>4. tickers' \in [Pair -> Ticker \cup {Null}] /\ tickers'[q] \in Ticker
        BY <1>0, <3>1, <3>2, <3>3 DEF TypeOK
      <3>5. tickers'[ioThread'.pair] # Null
        BY <2>1, <3>4, NullAssumption
      <3> QED BY <1>0, <1>5, <2>1, <3>4, <3>5 DEF TypeInv, TypeOK, TickerBid
    <2> QED BY <2>2, <2>3
  <1>6. CASE TickerAsk
    <2>1. ioThread \in Filling /\ ioThread.event \in Nat /\ ioThread.pair \in Pair /\ ioThread' = Null
      BY <1>3, <1>6 DEF TickerAsk
    <2>2. tickers' \in [Pair -> Ticker \cup {Null}]
      <3> DEFINE q == ioThread.pair
                 full == [tickers[q] EXCEPT !.ask = ioThread.event]
                 fresh == [bid |-> ioThread.event, ask |-> ioThread.event]
      <3>1. CASE ioThread.new
        <4>1. tickers' = [tickers EXCEPT ![q] = fresh] /\ fresh \in Ticker
          BY <1>6, <2>1, <3>1 DEF TickerAsk, Ticker
        <4> HIDE DEF fresh
        <4> QED BY <1>0, <4>1 DEF TypeOK
      <3>2. CASE ~ ioThread.new
        <4>1. tickers' = [tickers EXCEPT ![q] = full]
          BY <1>6, <3>2 DEF TickerAsk
        <4>2. full \in Ticker
          BY <1>4, <1>6, <2>1, <3>2 DEF TickerAsk, Ticker
        <4> HIDE DEF full
        <4> QED BY <1>0, <4>1, <4>2 DEF TypeOK
      <3> QED BY <3>1, <3>2
    <2>3. latest' \in [Key -> Nat]
      BY <1>0, <1>6, <2>1 DEF TypeOK, TickerAsk
    <2> QED BY <1>0, <1>6, <2>1, <2>2, <2>3 DEF TypeInv, TypeOK, TickerAsk
  <1>7. CASE TickerThrows
    BY <1>0, <1>3, <1>7 DEF TypeInv, TypeOK, TickerThrows
  <1>8. CASE KlineThrows
    BY <1>0, <1>8 DEF TypeInv, TypeOK, KlineThrows, EventArrives, cache
  <1> QED BY <1>1, <1>2, <1>5, <1>6, <1>7, <1>8 DEF Io

LEMMA BeginType ==
  ASSUME TypeInv, NEW r \in Readers, NEW key \in Key, ReadBegins(r, key)
  PROVE  TypeInv'
  <1>1. maxNumTries \in Int /\ timeout \in Int
    <2>1. TriesPerSecond \in Int /\ timeout \in Int
      BY ConstantAssumption DEF TypeInv, TypeOK
    <2> QED BY <2>1 DEF maxNumTries
  <1>2. [key |-> key, numTries |-> 0, maxNumTries |-> maxNumTries,
         allowed |-> timeout, there |-> Look(key) # Null] \in Call
    BY <1>1 DEF Call
  <1>3. reading' \in [Readers -> Call \cup {Null}]
    BY <1>2 DEF TypeInv, TypeOK, ReadBegins
  <1> QED BY <1>3 DEF TypeInv, TypeOK, ReadBegins, cache

LEMMA ReadType == ASSUME TypeInv, NEW r \in Readers, Read(r) PROVE TypeInv'
  <1>0. TypeOK
    BY DEF TypeInv
  <1>1. reading[r] # Null
    BY DEF Read, ReadFinds, ReadMisses, ReadGivesUp, MayLook
  <1>2. reading[r] \in Call /\ reading[r].key \in Key /\ reading[r].there \in BOOLEAN
    BY <1>0, <1>1 DEF TypeOK, Call
  <1>3. ASSUME NEW value \in Ticker \cup Candle \cup {Null}, Returns(r, value)
        PROVE  /\ reading' \in [Readers -> Call \cup {Null}]
               /\ returned' \in [Readers -> Result \cup {Null}]
    <2> DEFINE result == [key |-> reading[r].key, value |-> value, excused |-> Excused(r, value)]
    <2>1. Excused(r, value) \in BOOLEAN
      BY Zenon DEF Excused
    <2>2. returned' = [returned EXCEPT ![r] = result] /\ reading' = [reading EXCEPT ![r] = Null]
      BY <1>3, Zenon DEF Returns
    <2>3. result \in Result
      BY <1>2, <2>1 DEF Result
    <2> HIDE DEF result
    <2> QED BY <1>0, <2>2, <2>3 DEF TypeOK
  <1>4. CASE ReadFinds(r)
    <2>1. Look(reading[r].key) \in Ticker \cup Candle \cup {Null}
      BY <1>0, <1>2, LookType
    <2> QED BY <1>0, <1>3, <1>4, <2>1 DEF TypeInv, TypeOK, ReadFinds, cache
  <1>5. CASE ReadMisses(r)
    <2>1. reading' \in [Readers -> Call \cup {Null}]
      BY <1>0, <1>2, <1>5 DEF TypeOK, ReadMisses, Call
    <2> QED BY <1>0, <1>5, <2>1 DEF TypeInv, TypeOK, ReadMisses, cache
  <1>6. CASE ReadGivesUp(r)
    BY <1>0, <1>3, <1>6 DEF TypeInv, TypeOK, ReadGivesUp, cache
  <1> QED BY <1>4, <1>5, <1>6 DEF Read

LEMMA RestType ==
  ASSUME TypeInv, (\E s \in Timeouts : SetTimeout(s)) \/ DtorStop \/ DtorJoin \/ DtorTimeout \/ DtorFree
  PROVE  TypeInv'
  BY DEF TypeInv, TypeOK, SetTimeout, DtorStop, DtorJoin, DtorTimeout, DtorFree, cache

LEMMA StepType == TypeInv /\ [Next]_vars => TypeInv'
  <1>1. TypeInv /\ UNCHANGED vars => TypeInv'
    BY DEF TypeInv, TypeOK, vars, cache
  <1> QED BY <1>1, IoType, BeginType, ReadType, RestType DEF Next

LEMMA TypeAlways == Spec => []TypeInv
  BY InitType, StepType, PTL DEF Spec

\* Caches, calls and the event in hand are what they should be.
THEOREM TypeCorrect == Spec => []TypeOK
  <1>1. TypeInv => TypeOK
    BY DEF TypeInv
  <1> QED BY <1>1, TypeAlways, PTL

-----------------------------------------------------------------------------
(* The caches. *)

\* Of a ticker that is filled in place the fields before the one in hand are new.
CacheInv ==
    /\ CacheIsLatest
    /\ ioThread # Null /\ ioThread.bidDone /\ ~ ioThread.new =>
           tickers[ioThread.pair].bid = ioThread.event

\* CacheIsLatest, for the two kinds of keys.
TickerIsLatest(p) ==
    LET key == [kind |-> "ticker", pair |-> p]
    IN  \/ tickers[p] = Null /\ latest[key] = 0
        \/ ioThread # Null /\ ioThread.pair = p
        \/ p \in spoiled
        \/ tickers[p] = [bid |-> latest[key], ask |-> latest[key]]

CandleIsLatest(p, i) ==
    LET key == [kind |-> "kline", pair |-> p, interval |-> i]
    IN  \/ candlesticks[p][i] = Null /\ latest[key] = 0
        \/ candlesticks[p][i] = [event |-> latest[key]]

LEMMA ByKind ==
  CacheIsLatest <=> /\ \A p \in Pair : TickerIsLatest(p)
                    /\ \A p \in Pair, i \in CandleInterval : CandleIsLatest(p, i)
  <1> DEFINE Good(key) ==
                \/ Look(key) = Null /\ latest[key] = 0
                \/ key.kind = "kline" /\ Look(key) = [event |-> latest[key]]
                \/ /\ key.kind = "ticker"
                   /\ \/ ioThread # Null /\ ioThread.pair = key.pair
                      \/ key.pair \in spoiled
                      \/ Look(key) = [bid |-> latest[key], ask |-> latest[key]]
  <1>1. ASSUME NEW p \in Pair
        PROVE  TickerIsLatest(p) <=> Good([kind |-> "ticker", pair |-> p])
    BY DEF TickerIsLatest, Look
  <1>2. ASSUME NEW p \in Pair, NEW i \in CandleInterval
        PROVE  CandleIsLatest(p, i) <=> Good([kind |-> "kline", pair |-> p, interval |-> i])
    BY DEF CandleIsLatest, Look
  <1>3. CacheIsLatest <=> \A key \in Key : Good(key)
    BY DEF CacheIsLatest
  <1> HIDE DEF Good
  <1>4. (\A key \in Key : Good(key))
           <=> /\ \A p \in Pair : Good([kind |-> "ticker", pair |-> p])
               /\ \A p \in Pair, i \in CandleInterval :
                     Good([kind |-> "kline", pair |-> p, interval |-> i])
    <2>1. \A p \in Pair : [kind |-> "ticker", pair |-> p] \in TickerKey
      BY DEF TickerKey
    <2>2. \A p \in Pair, i \in CandleInterval :
              [kind |-> "kline", pair |-> p, interval |-> i] \in CandleKey
      BY DEF CandleKey
    <2>3. \A key \in TickerKey : \E p \in Pair : key = [kind |-> "ticker", pair |-> p]
      <3>1. \A key \in TickerKey : key.pair \in Pair /\ key = [kind |-> "ticker", pair |-> key.pair]
        BY DEF TickerKey
      <3> QED BY <3>1
    <2>4. \A key \in CandleKey : \E p \in Pair, i \in CandleInterval :
              key = [kind |-> "kline", pair |-> p, interval |-> i]
      <3>1. \A key \in CandleKey :
                /\ key.pair \in Pair /\ key.interval \in CandleInterval
                /\ key = [kind |-> "kline", pair |-> key.pair, interval |-> key.interval]
        BY DEF CandleKey
      <3> QED BY <3>1
    <2> QED BY <2>1, <2>2, <2>3, <2>4, Zenon DEF Key
  <1> QED BY <1>1, <1>2, <1>3, <1>4

LEMMA InitCache == Init => CacheInv
  <1> SUFFICES ASSUME Init PROVE CacheInv
    OBVIOUS
  <1>1. \A p \in Pair : TickerIsLatest(p)
    BY KeyFacts DEF Init, TickerIsLatest
  <1>2. \A p \in Pair, i \in CandleInterval : CandleIsLatest(p, i)
    BY KeyFacts DEF Init, CandleIsLatest
  <1> QED BY <1>1, <1>2, ByKind DEF Init, CacheInv

LEMMA StepCache == TypeInv /\ CacheInv /\ [Next]_vars => CacheInv'
  <1> SUFFICES ASSUME TypeInv, CacheInv, [Next]_vars PROVE CacheInv'
    OBVIOUS
  <1>0. TypeOK /\ (\A p \in Pair : TickerIsLatest(p))
        /\ (\A p \in Pair, i \in CandleInterval : CandleIsLatest(p, i))
    BY ByKind DEF TypeInv, CacheInv
  <1> SUFFICES /\ \A p \in Pair : TickerIsLatest(p)'
               /\ \A p \in Pair, i \in CandleInterval : CandleIsLatest(p, i)'
               /\ ioThread' # Null /\ ioThread'.bidDone /\ ~ ioThread'.new =>
                      tickers'[ioThread'.pair].bid = ioThread'.event
    <2>1. (CacheIsLatest <=> /\ \A p \in Pair : TickerIsLatest(p)
                             /\ \A p \in Pair, i \in CandleInterval : CandleIsLatest(p, i))'
      BY ByKind, PTL
    <2> QED BY <2>1 DEF CacheInv
  <1>1. CASE /\ UNCHANGED <<tickers, candlesticks, latest, spoiled, ioThread>>
    BY <1>0, <1>1 DEF CacheInv, TickerIsLatest, CandleIsLatest
  <1>2. ASSUME ioThread # Null
        PROVE  /\ ioThread \in Filling /\ ioThread.pair \in Pair /\ ioThread.event \in Nat
               /\ ~ ioThread.new => tickers[ioThread.pair] \in Ticker
    <2>1. ioThread \in Filling /\ ioThread.pair \in Pair /\ ioThread.event \in Nat
      BY <1>0, <1>2 DEF TypeOK, Filling
    <2> QED BY <1>0, <1>2, <2>1 DEF TypeInv, TypeOK
  <1>3. ASSUME NEW q \in Pair, TickerBegins(q)
        PROVE  /\ \A p \in Pair : TickerIsLatest(p)'
               /\ \A p \in Pair, i \in CandleInterval : CandleIsLatest(p, i)'
               /\ ~ ioThread'.bidDone
    BY <1>0, <1>3 DEF TickerBegins, EventArrives, cache, TickerIsLatest, CandleIsLatest
  <1>4. ASSUME NEW q \in Pair, NEW j \in CandleInterval, Kline(q, j)
        PROVE  /\ \A p \in Pair : TickerIsLatest(p)'
               /\ \A p \in Pair, i \in CandleInterval : CandleIsLatest(p, i)'
               /\ ioThread' = Null
    <2> DEFINE k == [kind |-> "kline", pair |-> q, interval |-> j]
    <2>1. /\ tickers' = tickers /\ spoiled' = spoiled /\ ioThread' = Null /\ ioThread = Null
          /\ latest' = [latest EXCEPT ![k] = events']
          /\ candlesticks' = [candlesticks EXCEPT ![q][j] = [event |-> events']]
      BY <1>4 DEF Kline, EventArrives
    <2>2. ASSUME NEW p \in Pair PROVE TickerIsLatest(p)'
      <3>1. latest'[[kind |-> "ticker", pair |-> p]] = latest[[kind |-> "ticker", pair |-> p]]
        <4>1. [kind |-> "ticker", pair |-> p] \in Key /\ [kind |-> "ticker", pair |-> p] # k
          BY KeyFacts
        <4> HIDE DEF k
        <4> QED BY <1>0, <2>1, <4>1 DEF TypeOK
      <3>2. TickerIsLatest(p)
        BY <1>0
      <3> QED BY <2>1, <3>1, <3>2 DEF TickerIsLatest
    <2>3. ASSUME NEW p \in Pair, NEW i \in CandleInterval PROVE CandleIsLatest(p, i)'
      <3> DEFINE key == [kind |-> "kline", pair |-> p, interval |-> i]
      <3>0. key \in Key /\ k \in Key
        BY KeyFacts
      <3>1. CASE p = q /\ i = j
        <4>1. key = k
          BY <3>1
        <4>2. latest'[k] = events'
          <5> HIDE DEF k
          <5> QED BY <1>0, <2>1, <3>0 DEF TypeOK
        <4>3. candlesticks'[q][j] = [event |-> events']
          BY <1>0, <2>1 DEF TypeOK
        <4> QED BY <3>1, <4>2, <4>3 DEF CandleIsLatest
      <3>2. CASE ~ (p = q /\ i = j)
        <4>1. key # k
          BY <3>2
        <4>2. latest'[key] = latest[key]
          <5> HIDE DEF k, key
          <5> QED BY <1>0, <2>1, <3>0, <4>1 DEF TypeOK
        <4>3. candlesticks'[p][i] = candlesticks[p][i]
          BY <1>0, <2>1, <3>2 DEF TypeOK
        <4> QED BY <1>0, <4>2, <4>3 DEF CandleIsLatest
      <3> QED BY <3>1, <3>2
    <2> QED BY <2>1, <2>2, <2>3
  <1>5. CASE TickerBid
    <2>1. /\ ioThread # Null /\ ioThread' # Null /\ ioThread'.pair = ioThread.pair
          /\ ioThread'.new = ioThread.new /\ ioThread'.event = ioThread.event
          /\ candlesticks' = candlesticks /\ latest' = latest /\ spoiled' = spoiled
      <3>1. ioThread' = [ioThread EXCEPT !.bidDone = TRUE] /\ ioThread \in Filling
        BY <1>2, <1>5 DEF TickerBid
      <3>2. ioThread' \in Filling
        BY <3>1 DEF Filling
      <3> QED BY <1>5, <3>1, <3>2, NullAssumption DEF TickerBid, Filling
    <2>2. \A p \in Pair : p # ioThread.pair => tickers'[p] = tickers[p]
      BY <1>0, <1>5 DEF TypeOK, TickerBid
    <2>3. ~ ioThread.new => tickers'[ioThread.pair].bid = ioThread.event
      BY <1>0, <1>2, <1>5 DEF TypeOK, TickerBid, Ticker
    <2>4. \A p \in Pair : TickerIsLatest(p)'
      BY <1>0, <2>1, <2>2 DEF TickerIsLatest
    <2>5. \A p \in Pair, i \in CandleInterval : CandleIsLatest(p, i)'
      BY <1>0, <2>1 DEF CandleIsLatest
    <2> QED BY <2>1, <2>3, <2>4, <2>5
  <1>6. CASE TickerAsk
    <2> DEFINE q == ioThread.pair
               e == ioThread.event
               k == [kind |-> "ticker", pair |-> q]
    <2>1. /\ q \in Pair /\ e \in Nat /\ ioThread' = Null /\ candlesticks' = candlesticks
          /\ latest' = [latest EXCEPT ![k] = e] /\ spoiled' = spoiled \ {q}
          /\ k \in Key
      BY <1>2, <1>6, KeyFacts DEF TickerAsk
    <2>2. tickers'[q] = [bid |-> e, ask |-> e]
      <3>1. CASE ioThread.new
        BY <1>0, <1>6, <2>1, <3>1 DEF TypeOK, TickerAsk
      <3>2. CASE ~ ioThread.new
        <4>1. tickers[q] \in Ticker /\ tickers[q].bid = e
          BY <1>2, <1>6, <3>2 DEF TickerAsk, CacheInv
        <4>2. tickers'[q] = [tickers[q] EXCEPT !.ask = e]
          BY <1>0, <1>6, <2>1, <3>2 DEF TypeOK, TickerAsk
        <4> QED BY <4>1, <4>2 DEF Ticker
      <3> QED BY <3>1, <3>2
    <2>3. \A p \in Pair : p # q => tickers'[p] = tickers[p]
      BY <1>0, <1>6 DEF TypeOK, TickerAsk
    <2>4. latest'[k] = e /\ \A key \in Key : key # k => latest'[key] = latest[key]
      <3> HIDE DEF k, e
      <3> QED BY <1>0, <2>1 DEF TypeOK
    <2>5. ASSUME NEW p \in Pair PROVE TickerIsLatest(p)'
      <3>1. CASE p = q
        BY <2>2, <2>4, <3>1 DEF TickerIsLatest
      <3>2. CASE p # q
        <4>1. [kind |-> "ticker", pair |-> p] \in Key /\ [kind |-> "ticker", pair |-> p] # k
          BY <3>2, KeyFacts
        <4>2. latest'[[kind |-> "ticker", pair |-> p]] = latest[[kind |-> "ticker", pair |-> p]]
          BY <2>4, <4>1
        <4>3. TickerIsLatest(p) /\ tickers'[p] = tickers[p] /\ (p \in spoiled' <=> p \in spoiled)
          BY <1>0, <2>1, <2>3, <3>2
        <4> HIDE DEF k, e
        <4> QED BY <3>2, <4>2, <4>3 DEF TickerIsLatest
      <3> QED BY <3>1, <3>2
    <2>6. ASSUME NEW p \in Pair, NEW i \in CandleInterval PROVE CandleIsLatest(p, i)'
      <3> DEFINE key == [kind |-> "kline", pair |-> p, interval |-> i]
      <3>1. key \in Key /\ key # k
        BY KeyFacts
      <3>2. latest'[key] = latest[key]
        BY <2>4, <3>1
      <3>3. CandleIsLatest(p, i)
        BY <1>0
      <3> QED BY <2>1, <3>2, <3>3 DEF CandleIsLatest
    <2> QED BY <2>1, <2>5, <2>6
  <1>7. CASE TickerThrows
    BY <1>0, <1>7 DEF TickerThrows, TickerIsLatest, CandleIsLatest
  <1>8. CASE UNCHANGED vars \/ KlineThrows \/ \E s \in Timeouts : SetTimeout(s)
    BY <1>1, <1>8 DEF vars, cache, KlineThrows, EventArrives, SetTimeout
  <1>9. ASSUME NEW r \in Readers, (\E key \in Key : ReadBegins(r, key)) \/ Read(r)
        PROVE  UNCHANGED <<tickers, candlesticks, latest, spoiled, ioThread>>
    BY <1>9 DEF cache, ReadBegins, Read, ReadFinds, ReadMisses, ReadGivesUp
  <1>10. CASE DtorStop \/ DtorJoin \/ DtorTimeout \/ DtorFree
    BY <1>1, <1>10 DEF cache, DtorStop, DtorJoin, DtorTimeout, DtorFree
  <1> QED BY <1>1, <1>3, <1>4, <1>5, <1>6, <1>7, <1>8, <1>9, <1>10 DEF Next, Io

LEMMA CacheAlways == Spec => []CacheInv
  BY InitCache, StepCache, TypeAlways, PTL DEF Spec

\* The caches hold the last good event of each key, but for bad events.
THEOREM CachesAreLatest == Spec => []CacheIsLatest
  <1>1. CacheInv => CacheIsLatest
    BY DEF CacheInv
  <1> QED BY <1>1, CacheAlways, PTL

-----------------------------------------------------------------------------
(* The readers. *)

\* A ticker is read under the lock, so that all its fields are from one event.
THEOREM ReadsAreWhole == Spec => []NoTornRead
  <1>1. Init => NoTornRead
    BY DEF Init, NoTornRead
  <1>2. TypeInv /\ CacheInv /\ NoTornRead /\ [Next]_vars => NoTornRead'
    <2> SUFFICES ASSUME TypeInv, CacheInv, NoTornRead, [Next]_vars, NEW r \in Readers, returned'[r] # Null
                 PROVE  \/ returned'[r].value \in Ticker => returned'[r].value.bid = returned'[r].value.ask
                        \/ returned'[r].excused
      BY DEF NoTornRead
    <2>1. TypeOK
      BY DEF TypeInv
    <2>2. CASE returned'[r] = returned[r]
      BY <2>2 DEF NoTornRead
    <2>3. CASE ReadFinds(r)
      <3> DEFINE key == reading[r].key
                 found == Look(key)
      <3>1. key \in Key /\ reading[r] # Null
        BY <2>1, <2>3 DEF TypeOK, ReadFinds, MayLook, Call
      <3>2. returned'[r] = [key |-> key, value |-> found, excused |-> Excused(r, found)]
        BY <2>1, <2>3 DEF TypeOK, ReadFinds, Returns
      <3>3. found # Null /\ (key.pair \in spoiled => Excused(r, found))
        BY <2>3 DEF ReadFinds, Excused
      <3>4. returned'[r].value = found /\ (key.pair \in spoiled => returned'[r].excused)
        <4> HIDE DEF found
        <4> QED BY <3>2, <3>3
      <3>5. CASE key.kind = "ticker"
        <4>1. ioThread = Null
          BY <2>3, <3>5 DEF ReadFinds, MayLook
        <4>2. key.pair \in spoiled \/ found = [bid |-> latest[key], ask |-> latest[key]]
          BY <3>1, <3>3, <3>5, <4>1 DEF CacheInv, CacheIsLatest
        <4> HIDE DEF found
        <4> QED BY <3>4, <4>2
      <3>6. CASE key.kind # "ticker"
        <4>1. found = [event |-> latest[key]]
          BY <3>1, <3>3, <3>6 DEF CacheInv, CacheIsLatest
        <4>2. found \notin Ticker
          BY <4>1 DEF Ticker
        <4> HIDE DEF found
        <4> QED BY <3>4, <4>2
      <3> QED BY <3>5, <3>6
    <2>4. CASE ReadGivesUp(r)
      <3>1. returned'[r].value = Null
        BY <2>1, <2>4 DEF TypeOK, ReadGivesUp, Returns
      <3> QED BY <3>1, NullAssumption
    <2>5. ASSUME NEW q \in Readers, q # r, ReadFinds(q) \/ ReadGivesUp(q) PROVE returned'[r] = returned[r]
      BY <2>1, <2>5 DEF TypeOK, ReadFinds, ReadGivesUp, Returns
    <2>6. ASSUME NEW q \in Readers, (\E key \in Key : ReadBegins(q, key)) \/ ReadMisses(q)
          PROVE  returned'[r] = returned[r]
      BY <2>6 DEF ReadBegins, ReadMisses
    <2>7. CASE UNCHANGED vars \/ Io
      BY <2>2, <2>7 DEF vars, Io, TickerBegins, TickerBid, TickerAsk, TickerThrows, Kline, KlineThrows
    <2>8. CASE \/ \E s \in Timeouts : SetTimeout(s)
               \/ DtorStop \/ DtorJoin \/ DtorTimeout \/ DtorFree
      BY <2>2, <2>8 DEF SetTimeout, DtorStop, DtorJoin, DtorTimeout, DtorFree
    <2> QED BY <2>2, <2>3, <2>4, <2>5, <2>6, <2>7, <2>8 DEF Next, Read
  <1> QED BY <1>1, <1>2, TypeAlways, CacheAlways, PTL DEF Spec

\* A call keeps the number of tries it computed when it began.
TriesInv ==
    \A r \in Readers :
        reading[r] # Null =>
            /\ reading[r].maxNumTries = reading[r].allowed * TriesPerSecond
            /\ reading[r].numTries = 0 \/ reading[r].numTries <= reading[r].maxNumTries + 1

\* No call sleeps longer than the timeout that was set when it began, or once.
THEOREM CallsAreBounded == Spec => []BlocksAtMostTimeout
  <1>1. Init => TriesInv
    BY DEF Init, TriesInv
  <1>2. TypeInv /\ TriesInv /\ [Next]_vars => TriesInv'
    <2> SUFFICES ASSUME TypeInv, TriesInv, [Next]_vars, NEW r \in Readers, reading'[r] # Null
                 PROVE  /\ reading'[r].maxNumTries = reading'[r].allowed * TriesPerSecond
                        /\ reading'[r].numTries = 0 \/ reading'[r].numTries <= reading'[r].maxNumTries + 1
      BY DEF TriesInv
    <2>1. TypeOK
      BY DEF TypeInv
    <2>2. CASE reading'[r] = reading[r]
      BY <2>2 DEF TriesInv
    <2>3. ASSUME NEW key \in Key, ReadBegins(r, key)
          PROVE  /\ reading'[r].maxNumTries = reading'[r].allowed * TriesPerSecond
                 /\ reading'[r].numTries = 0
      BY <2>1, <2>3 DEF TypeOK, ReadBegins, maxNumTries
    <2>4. CASE ReadMisses(r)
      <3>1. reading[r] \in Call /\ reading[r].numTries <= reading[r].maxNumTries /\ reading[r] # Null
        BY <2>1, <2>4 DEF TypeOK, ReadMisses, MayLook
      <3>2. /\ reading'[r].numTries = reading[r].numTries + 1
            /\ reading'[r].maxNumTries = reading[r].maxNumTries
            /\ reading'[r].allowed = reading[r].allowed
        BY <2>1, <2>4, <3>1 DEF TypeOK, ReadMisses, Call
      <3>3. reading[r].numTries \in Int /\ reading[r].maxNumTries \in Int
        BY <3>1 DEF Call
      <3>4. reading[r].maxNumTries = reading[r].allowed * TriesPerSecond
        BY <3>1 DEF TriesInv
      <3>5. reading'[r].numTries <= reading'[r].maxNumTries + 1
        BY <3>1, <3>2, <3>3
      <3> QED BY <3>2, <3>4, <3>5
    <2>5. ASSUME ReadFinds(r) \/ ReadGivesUp(r) PROVE reading'[r] = Null
      BY <2>1, <2>5 DEF TypeOK, ReadFinds, ReadGivesUp, Returns
    <2>6. ASSUME NEW q \in Readers, q # r, (\E key \in Key : ReadBegins(q, key)) \/ Read(q)
          PROVE  reading'[r] = reading[r]
      BY <2>1, <2>6 DEF TypeOK, ReadBegins, Read, ReadFinds, ReadMisses, ReadGivesUp, Returns
    <2>7. CASE UNCHANGED vars \/ Io
      BY <2>2, <2>7
         DEF vars, Io, TickerBegins, TickerBid, TickerAsk, TickerThrows, Kline, KlineThrows
    <2>8. CASE \/ \E s \in Timeouts : SetTimeout(s)
               \/ DtorStop \/ DtorJoin \/ DtorTimeout \/ DtorFree
      BY <2>2, <2>8 DEF SetTimeout, DtorStop, DtorJoin, DtorTimeout, DtorFree
    <2> QED BY <2>2, <2>3, <2>4, <2>5, <2>6, <2>7, <2>8 DEF Next, Read
  <1>3. TypeInv /\ TriesInv => BlocksAtMostTimeout
    <2> SUFFICES ASSUME TypeInv, TriesInv, NEW r \in Readers, reading[r] # Null, reading[r].numTries > 1
                 PROVE  reading[r].numTries * SleepMs <= reading[r].allowed * MsPerSecond
      BY DEF BlocksAtMostTimeout
    <2> DEFINE n == reading[r].numTries
               a == reading[r].allowed
    <2>1. n \in Nat /\ a \in Int /\ n <= a * TriesPerSecond + 1 /\ n > 1
      BY DEF TypeInv, TypeOK, Call, TriesInv
    <2>2. TriesPerSecond \in Nat /\ SleepMs \in Nat /\ MsPerSecond \in Nat
          /\ (TriesPerSecond + 1) * SleepMs <= MsPerSecond
      BY ConstantAssumption
    <2> HIDE DEF n, a
    <2>3. a >= 1
      <3>1. a <= 0 => a * TriesPerSecond <= 0
        BY <2>1, <2>2
      <3>2. a * TriesPerSecond \in Int
        BY <2>1, <2>2
      <3> QED BY <2>1, <3>1, <3>2
    <2>4. n <= a * (TriesPerSecond + 1)
      BY <2>1, <2>2, <2>3
    <2>5. n * SleepMs <= (a * (TriesPerSecond + 1)) * SleepMs
      BY <2>1, <2>2, <2>4
    <2>6. (a * (TriesPerSecond + 1)) * SleepMs = a * ((TriesPerSecond + 1) * SleepMs)
      BY <2>1, <2>2
    <2>7. a * ((TriesPerSecond + 1) * SleepMs) <= a * MsPerSecond
      <3> DEFINE x == (TriesPerSecond + 1) * SleepMs
      <3>1. x \in Nat /\ x <= MsPerSecond
        BY <2>2
      <3> HIDE DEF x
      <3>2. a * x <= a * MsPerSecond
        BY <2>1, <2>2, <2>3, <3>1
      <3> QED BY <3>2 DEF x
    <2>8. n * SleepMs \in Int /\ a * ((TriesPerSecond + 1) * SleepMs) \in Int /\ a * MsPerSecond \in Int
      BY <2>1, <2>2
    <2> QED BY <2>5, <2>6, <2>7, <2>8 DEF n, a
  <1> QED BY <1>1, <1>2, <1>3, TypeAlways, PTL DEF Spec
=============================================================================

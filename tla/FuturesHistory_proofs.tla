------------------------ MODULE FuturesHistory_proofs ------------------------
(* Theorems about FuturesHistory, for every market, range and page size. *)
EXTENDS FuturesHistory, SortedSets_proofs

-----------------------------------------------------------------------------
(* The candles of a span. *)

LEMMA SpanFacts ==
  ASSUME NEW from, NEW to \in Int, NEW time
  PROVE  /\ Between(from, to, time) \in SUBSET Int /\ Between(from, to, time) \in SUBSET Nat
         /\ IsFiniteSet(Between(from, to, time))
  <1> DEFINE last == Ms(to)
  <1>1. 0 \in Int /\ last \in Int
    BY DEF Ms
  <1>2. \A t \in Traded : from <= t /\ t <= to /\ t <= time => Ms(t) \in 0 .. last
    BY ConstantAssumption DEF Ms
  <1>3. Between(from, to, time) \subseteq 0 .. last
    BY <1>2, Zenon DEF Between
  <1> HIDE DEF last
  <1>4. IsFiniteSet(0 .. last)
    BY <1>1, FS_Interval, Zenon
  <1>5. 0 .. last \subseteq Nat /\ Nat \subseteq Int
    BY <1>1
  <1> QED BY <1>3, <1>4, <1>5, FS_Subset

\* A span has the candles of the range up to its end, if the range's end is not
\* earlier and it is asked about after the range was.
LEMMA SpanOf ==
  ASSUME NEW from, NEW to \in Int, NEW end \in Int, to <= end,
         NEW then \in Int, NEW time \in Int, then <= time, then = time \/ to <= then
  PROVE  Between(from, to, time) = {d \in Between(from, end, then) : d <= Ms(to)}
  <1>1. \A t \in Traded : /\ t \in Int
                          /\ t <= to <=> Ms(t) <= Ms(to)
                          /\ t <= to /\ t <= time <=> t <= end /\ t <= then /\ t <= to
    BY ConstantAssumption DEF Ms
  <1>2. \A t \in Traded : from <= t /\ t <= to /\ t <= time
                          <=> (from <= t /\ t <= end /\ t <= then) /\ Ms(t) <= Ms(to)
    BY <1>1
  <1> QED BY <1>2, Zenon DEF Between

-----------------------------------------------------------------------------
(* The inductive invariant: what is saved is what there is after             *)
(* currentEndTime, and a page is the newest of what there is before it.      *)

Rest == {d \in Wanted : d <= Ms(currentEndTime)}

PagesInv ==
    /\ TypeOK
    /\ askedAt <= now
    /\ Ascending(candles) /\ Ascending(written)
    /\ pc \in {"begin", "request", "loop"} => retVal = written
    /\ pc = "begin" => written = <<>>
    /\ pc \in {"begin", "request"} => candles = <<>>
    /\ written = <<>> => currentEndTime = endTime
    /\ Elements(written) \subseteq Wanted
    /\ \A c \in Elements(written) : c > Ms(currentEndTime)
    /\ \A d \in Wanted : d > Ms(currentEndTime) => d \in Elements(written)
    /\ Elements(candles) \subseteq Rest
    /\ \A c \in Elements(candles), d \in Rest : c < d => d \in Elements(candles)
    /\ pc = "loop" /\ candles = <<>> =>
           \/ written = <<>> /\ Cardinality(Wanted) <= 1
           \/ Elements(written) = Wanted
    /\ Complete

LEMMA Types ==
  ASSUME TypeOK
  PROVE  /\ currentEndTime \in Int /\ endTime \in Int /\ startTime \in Int
         /\ askedAt \in Int /\ now \in Int /\ currentEndTime <= endTime
         /\ candles \in Seq(Int) /\ written \in Seq(Int) /\ retVal \in Seq(Int)
         /\ Elements(candles) \subseteq Int /\ Elements(written) \subseteq Int
  <1>1. /\ candles \in Seq(Nat) /\ written \in Seq(Nat) /\ retVal \in Seq(Nat)
    BY DEF TypeOK
  <1>2. /\ candles \in Seq(Int) /\ written \in Seq(Int) /\ retVal \in Seq(Int)
    BY <1>1, WiderSeq
  <1>3. Elements(candles) \subseteq Int /\ Elements(written) \subseteq Int
    BY <1>2 DEF Elements
  <1> QED BY <1>2, <1>3, ConstantAssumption DEF TypeOK

\* A candle of the range.
LEMMA OfWanted ==
  ASSUME TypeOK, NEW d \in Wanted
  PROVE  \E t \in Traded : /\ d = Ms(t) /\ t \in Nat
                           /\ startTime <= t /\ t <= endTime /\ t <= askedAt
  BY ConstantAssumption DEF Wanted, Between

LEMMA InitPages == Init => PagesInv
  <1> SUFFICES ASSUME Init PROVE PagesInv
    OBVIOUS
  <1>1. PICK range \in Ranges : startTime = range[1] \div 1000 /\ endTime = range[2] \div 1000
    BY DEF Init
  <1>2. range[1] \in Nat /\ range[2] \in Nat
    BY ConstantAssumption
  <1>3. startTime \in Nat /\ endTime \in Nat
    BY <1>1, <1>2
  <1>4. TypeOK
    BY <1>3, ConstantAssumption DEF Init, TypeOK
  <1>5. \A d \in Wanted : ~ (d > Ms(currentEndTime))
    BY <1>4, Types, OfWanted DEF Init, Ms
  <1> QED BY <1>4, <1>5, ConstantAssumption DEF Init, TypeOK, PagesInv, Ascending, Elements, Complete

LEMMA BeginPages == ASSUME PagesInv, Begin PROVE PagesInv'
  <1>1. TypeOK'
    BY DEF PagesInv, TypeOK, Begin, NextStep
  <1>2. Wanted' = Wanted /\ Rest' = Rest /\ written = <<>> /\ currentEndTime = endTime
    BY DEF PagesInv, Begin, Wanted, Rest
  <1>3. CASE Asks(currentEndTime)
    BY <1>1, <1>2, <1>3 DEF PagesInv, Begin, NextStep, Complete
  <1>4. CASE ~ Asks(currentEndTime)
    <2>1. \A d \in Wanted : d = Ms(startTime)
      <3> SUFFICES ASSUME NEW d \in Wanted PROVE d = Ms(startTime)
        OBVIOUS
      <3>1. PICK t \in Nat : d = Ms(t) /\ startTime <= t /\ t <= endTime
        BY OfWanted DEF PagesInv
      <3>2. startTime >= endTime /\ startTime \in Int /\ endTime \in Int
        BY <1>2, <1>4, Types DEF PagesInv, Asks
      <3>3. t = startTime
        BY <3>1, <3>2
      <3> QED BY <3>1, <3>3
    <2>2. Wanted \subseteq {Ms(startTime)}
      BY <2>1
    <2>3. Cardinality(Wanted) <= 1
      <3>1. IsFiniteSet({Ms(startTime)}) /\ Cardinality({Ms(startTime)}) = 1
        BY FS_Singleton, Zenon
      <3>2. IsFiniteSet(Wanted) /\ Cardinality(Wanted) <= Cardinality({Ms(startTime)})
        BY <2>2, <3>1, FS_Subset
      <3> QED BY <3>1, <3>2
    <2> QED BY <1>1, <1>2, <1>4, <2>3 DEF PagesInv, Begin, NextStep, Complete
  <1> QED BY <1>3, <1>4

LEMMA FetchPages == ASSUME PagesInv, Fetch PROVE PagesInv'
  <1> DEFINE S == Between(startTime, currentEndTime, now)
  <1>0. /\ TypeOK /\ currentEndTime \in Int /\ endTime \in Int /\ currentEndTime <= endTime
        /\ askedAt \in Int /\ now \in Int /\ askedAt <= now
        /\ Ms(currentEndTime) \in Int /\ Ms(endTime) \in Int
    <2>1. TypeOK /\ askedAt <= now
      BY DEF PagesInv
    <2>2. /\ currentEndTime \in Int /\ endTime \in Int /\ currentEndTime <= endTime
          /\ askedAt \in Int /\ now \in Int
      BY <2>1, Types
    <2> QED BY <2>1, <2>2 DEF Ms
  <1>1. askedAt' \in 0 .. MaxNow /\ askedAt' \in Int /\ askedAt' <= now
    BY <1>0 DEF TypeOK, Fetch
  <1>2. ASSUME written # <<>> PROVE currentEndTime <= askedAt'
    <2>1. askedAt' = askedAt /\ Wanted' = Wanted
      BY <1>2 DEF Fetch, Wanted
    <2>2. Head(written) \in Wanted /\ Head(written) > Ms(currentEndTime)
      BY <1>2, FirstAndLast, Types DEF PagesInv
    <2>3. PICK t \in Nat : Head(written) = Ms(t) /\ t <= askedAt
      BY <1>0, <2>2, OfWanted
    <2>4. currentEndTime <= askedAt
      BY <1>0, <2>2, <2>3 DEF Ms
    <2> QED BY <2>1, <2>4
  <1>3. askedAt' = now \/ currentEndTime <= askedAt'
    <2>1. CASE written = <<>>
      BY <2>1 DEF Fetch
    <2> QED BY <1>2, <2>1
  <1>4. S = Rest'
    <2>1. S = {d \in Between(startTime, endTime, askedAt') : d <= Ms(currentEndTime)}
      BY <1>0, <1>1, <1>3, SpanOf
    <2> QED BY <2>1 DEF Fetch, Rest, Wanted, Ms
  <1>5. S \in SUBSET Int /\ S \in SUBSET Nat /\ IsFiniteSet(S)
    BY <1>0, SpanFacts
  <1>6. /\ candles' \in Seq(Nat) /\ Ascending(candles')
        /\ Elements(candles') = Newest(S, PageLimit)
    <2> DEFINE P == Newest(S, PageLimit)
    <2>1. candles' = Sorted(P)
      BY DEF Fetch, Answer
    <2>2. P \in SUBSET Nat /\ P \in SUBSET Int /\ IsFiniteSet(P)
      BY <1>5, NewestFacts, ConstantAssumption
    <2> HIDE DEF P
    <2>3. Sorted(P) \in Seq(P) /\ Ascending(Sorted(P)) /\ Elements(Sorted(P)) = P
      BY <2>2, SortedFacts
    <2>4. Sorted(P) \in Seq(Nat)
      BY <2>2, <2>3, WiderSeq
    <2> QED BY <2>1, <2>3, <2>4 DEF P
  <1>7. TypeOK'
    BY <1>0, <1>1, <1>6 DEF TypeOK, Fetch
  <1>8. /\ Elements(candles') \subseteq Rest'
        /\ \A c \in Elements(candles'), d \in Rest' : c < d => d \in Elements(candles')
        /\ Elements(candles') = {} => Rest' = {}
    BY <1>4, <1>5, <1>6, NewestFacts, ConstantAssumption
  <1>9. /\ Elements(written') \subseteq Wanted'
        /\ \A d \in Wanted' : d > Ms(currentEndTime') => d \in Elements(written')
    <2>1. CASE written # <<>>
      BY <2>1 DEF PagesInv, Fetch, Wanted
    <2>2. CASE written = <<>>
      <3>1. \A d \in Wanted' : ~ (d > Ms(endTime))
        <4>1. Wanted' = Between(startTime, endTime, now)
          BY <2>2 DEF Fetch, Wanted
        <4>2. \A t \in Traded : t <= endTime => ~ (Ms(t) > Ms(endTime))
          BY <1>0, ConstantAssumption DEF Ms
        <4> QED BY <4>1, <4>2 DEF Between
      <3>2. currentEndTime' = endTime /\ Elements(written') = {}
        BY <2>2 DEF PagesInv, Fetch, Elements
      <3> QED BY <3>1, <3>2
    <2> QED BY <2>1, <2>2
  <1>10. ASSUME candles' = <<>> PROVE Elements(written') = Wanted'
    <2>1. Rest' = {}
      BY <1>8, <1>10 DEF Elements
    <2>2. \A d \in Wanted' : d \in Int
      BY <1>0, <1>1, SpanFacts DEF Fetch, Wanted
    <2>3. \A d \in Wanted' : d > Ms(currentEndTime')
      BY <1>0, <2>1, <2>2 DEF Fetch, Rest
    <2> QED BY <1>9, <2>3
  <1> QED BY <1>0, <1>1, <1>6, <1>7, <1>8, <1>9, <1>10 DEF PagesInv, Fetch, Complete

\* The next request ends right before the page's oldest candle.
LEMMA PageSaved ==
  ASSUME PagesInv, Batch
  PROVE  /\ Wanted' = Wanted /\ TypeOK' /\ Ascending(written')
         /\ Elements(written') = Elements(candles) \cup Elements(written)
         /\ \E t \in Traded : /\ t \in Nat /\ Head(candles) = Ms(t) /\ Ms(t) \in Elements(candles)
                             /\ currentEndTime' = t - 1 /\ startTime <= t
                             /\ \A c \in Elements(written') : Ms(t) <= c
  <1>1. /\ TypeOK /\ candles \in Seq(Int) /\ written \in Seq(Int) /\ candles # <<>>
        /\ Elements(candles) \subseteq Int /\ Elements(written) \subseteq Int
        /\ currentEndTime \in Int /\ Ms(currentEndTime) \in Int
    BY Types DEF PagesInv, Batch, Ms
  <1>2. Wanted' = Wanted
    BY DEF Batch, Wanted
  <1>3. /\ \A c \in Elements(candles) : c \in Wanted /\ c <= Ms(currentEndTime)
        /\ \A c \in Elements(written) : c > Ms(currentEndTime)
    BY DEF PagesInv, Rest
  <1>4. \A c \in Elements(candles), d \in Elements(written) : c < d
    BY <1>1, <1>3
  <1>5. /\ Ascending(written')
        /\ Elements(written') = Elements(candles) \cup Elements(written)
    BY <1>1, <1>4, Concatenation DEF PagesInv, Batch
  <1>6. /\ Head(candles) \in Elements(candles)
        /\ \A c \in Elements(candles) : Head(candles) <= c
    BY <1>1, FirstAndLast DEF PagesInv
  <1>7. PICK t \in Traded : Head(candles) = Ms(t) /\ t \in Nat /\ startTime <= t /\ t <= endTime
    BY <1>1, <1>3, <1>6, OfWanted
  <1>8. currentEndTime' = t - 1 /\ startTime <= t /\ t <= currentEndTime
    <2>1. Ms(t) \div 1000 = t /\ Ms(t) <= Ms(currentEndTime)
      BY <1>3, <1>6, <1>7 DEF Ms
    <2> QED BY <1>1, <1>7, <2>1 DEF Batch, EndBefore, Ms
  <1>9. \A c \in Elements(written') : Ms(t) <= c
    BY <1>1, <1>4, <1>5, <1>6, <1>7
  <1>10. TypeOK'
    <2>1. candles \in Seq(Nat) /\ written \in Seq(Nat) /\ retVal = written
      BY DEF PagesInv, TypeOK, Batch
    <2>2. candles \o written \in Seq(Nat)
      BY <2>1
    <2>3. currentEndTime' \in -1 .. endTime
      BY <1>1, <1>7, <1>8 DEF TypeOK
    <2> QED BY <1>1, <2>1, <2>2, <2>3 DEF TypeOK, Batch, Accumulated, NextStep
  <1> QED BY <1>2, <1>5, <1>6, <1>7, <1>8, <1>9, <1>10

LEMMA BatchPages == ASSUME PagesInv, Batch PROVE PagesInv'
  <1>1. /\ TypeOK /\ candles # <<>> /\ Elements(written) \subseteq Int
        /\ currentEndTime \in Int /\ Ms(currentEndTime) \in Int /\ startTime \in Int
    BY Types DEF PagesInv, Batch, Ms
  <1>2. /\ Wanted' = Wanted /\ TypeOK' /\ Ascending(written')
        /\ Elements(written') = Elements(candles) \cup Elements(written)
    BY PageSaved
  <1>3. PICK t \in Traded : /\ t \in Nat /\ Head(candles) = Ms(t) /\ Ms(t) \in Elements(candles)
                           /\ currentEndTime' = t - 1 /\ startTime <= t
                           /\ \A c \in Elements(written') : Ms(t) <= c
    BY PageSaved
  <1>4. Elements(written') \subseteq Wanted'
    BY <1>2 DEF PagesInv, Rest
  <1>5. \A c \in Elements(written') : c > Ms(currentEndTime')
    <2>1. \A c \in Elements(written') : c \in Int
      BY <1>1, <1>2, Types
    <2>2. Ms(t) > Ms(t - 1) /\ Ms(t) \in Int /\ Ms(t - 1) \in Int
      BY <1>3 DEF Ms
    <2> QED BY <1>3, <2>1, <2>2
  <1>6. \A d \in Wanted' : d > Ms(currentEndTime') => d \in Elements(written')
    <2> SUFFICES ASSUME NEW d \in Wanted, d > Ms(t - 1) PROVE d \in Elements(candles) \cup Elements(written)
      BY <1>2, <1>3
    <2>1. PICK u \in Nat : d = Ms(u)
      BY <1>1, OfWanted
    <2>2. d = Ms(t) \/ Ms(t) < d
      BY <1>3, <2>1 DEF Ms
    <2>3. CASE d = Ms(t)
      BY <1>3, <2>3
    <2>4. CASE Ms(t) < d
      <3>1. d \in Rest \/ d > Ms(currentEndTime)
        BY <1>1, <2>1 DEF Rest, Ms
      <3> QED BY <1>3, <2>4, <3>1 DEF PagesInv
    <2> QED BY <2>2, <2>3, <2>4
  <1>7. ASSUME ~ Asks(currentEndTime') PROVE Elements(written') = Wanted'
    <2> SUFFICES ASSUME NEW d \in Wanted' PROVE d > Ms(currentEndTime')
      BY <1>4, <1>6
    <2>1. PICK u \in Traded : d = Ms(u) /\ u \in Nat /\ startTime <= u
      BY <1>1, <1>2, OfWanted
    <2>2. startTime >= t - 1
      BY <1>1, <1>2, <1>3, <1>7 DEF Asks, Batch
    <2>3. ~ (u < t)
      <3>1. IntervalS \in Nat /\ IntervalS >= 2 /\ (u < t => t >= u + IntervalS)
        BY ConstantAssumption
      <3> QED BY <1>1, <1>3, <2>1, <2>2, <3>1
    <2> QED BY <1>3, <2>1, <2>3 DEF Ms
  <1>8. written' # <<>>
    <2>1. Ms(t) \in Elements(written')
      BY <1>2, <1>3
    <2> QED BY <2>1 DEF Elements
  <1>9. Ascending(candles') /\ Elements(candles') = {} /\ candles' = <<>>
    BY DEF Batch, Ascending, Elements
  <1>10. retVal' = written'
    BY DEF PagesInv, Batch, Accumulated
  <1>11. pc' = "loop" => ~ Asks(currentEndTime')
    BY DEF Batch, NextStep, Asks
  <1>12. pc' \in {"request", "loop"} /\ askedAt' <= now'
    BY DEF PagesInv, Batch, NextStep
  <1> QED
    BY <1>2, <1>4, <1>5, <1>6, <1>7, <1>8, <1>9, <1>10, <1>11, <1>12 DEF PagesInv, Complete

LEMMA ShorterType ==
  ASSUME NEW T, NEW s \in Seq(T)
  PROVE  WithoutNewest(s) \in Seq(T)
  BY DEF WithoutNewest

LEMMA FinishPages == ASSUME PagesInv, Finish PROVE PagesInv'
  <1>1. TypeOK'
    BY ShorterType DEF PagesInv, TypeOK, Finish
  <1>2. Wanted' = Wanted /\ Rest' = Rest /\ retVal = written
    BY DEF PagesInv, Finish, Wanted, Rest
  <1>3. CASE Elements(written) = Wanted
    <2>1. written = Sorted(Wanted)
      BY <1>3, Types, AscendingIsSorted DEF PagesInv
    <2>2. Wanted = {} => Cardinality(Wanted) = 0 /\ WithoutNewest(written) = <<>>
      <3>1. Wanted = {} => written = <<>>
        <4>1. written # <<>> => Head(written) \in Elements(written)
          BY Types, FirstAndLast DEF PagesInv
        <4> QED BY <1>3, <4>1
      <3> QED BY <3>1, FS_EmptySet DEF WithoutNewest
    <2>3. Complete'
      BY <1>2, <2>1, <2>2 DEF Complete, Finish
    <2> QED BY <1>1, <1>2, <2>3 DEF PagesInv, Finish
  <1>4. CASE written = <<>> /\ Cardinality(Wanted) <= 1
    BY <1>1, <1>2, <1>4 DEF PagesInv, Finish, Complete, WithoutNewest
  <1> QED BY <1>3, <1>4 DEF PagesInv, Finish

LEMMA ThrowsPages == ASSUME PagesInv, Throws PROVE PagesInv'
  <1>1. TypeOK'
    BY DEF PagesInv, TypeOK, Throws
  <1>2. Wanted' = Wanted /\ Rest' = Rest
    BY DEF Throws, Wanted, Rest
  <1> QED BY <1>1, <1>2 DEF PagesInv, Throws, Ascending, Elements, Complete

LEMMA TickPages == ASSUME PagesInv, Tick PROVE PagesInv'
  <1>1. TypeOK' /\ askedAt' <= now'
    BY Types, ConstantAssumption DEF PagesInv, TypeOK, Tick
  <1>2. Wanted' = Wanted /\ Rest' = Rest
    BY DEF Tick, Wanted, Rest
  <1> QED BY <1>1, <1>2 DEF PagesInv, Tick, Complete

LEMMA StepPages == PagesInv /\ [Next]_vars => PagesInv'
  <1> SUFFICES ASSUME PagesInv, [Next]_vars PROVE PagesInv'
    OBVIOUS
  <1>1. CASE UNCHANGED vars
    BY <1>1 DEF PagesInv, vars, TypeOK, Wanted, Rest, Complete
  <1> QED BY <1>1, BeginPages, FetchPages, BatchPages, FinishPages, ThrowsPages, TickPages
          DEF Next, Step

LEMMA PagesAlways == Spec => []PagesInv
  BY InitPages, StepPages, PTL DEF Spec

-----------------------------------------------------------------------------
(* The theorems. *)

\* getHistoricalPrices() keeps its times and lists well-formed.
THEOREM TypeCorrect == Spec => []TypeOK
  <1>1. PagesInv => TypeOK
    BY DEF PagesInv
  <1> QED BY <1>1, PagesAlways, PTL

\* A finished download has every candle of the range but the newest.
THEOREM DownloadComplete == Spec => []Complete
  <1>1. PagesInv => Complete
    BY DEF PagesInv
  <1> QED BY <1>1, PagesAlways, PTL

\* No returned candle was open when the download began.
THEOREM ReturnsOnlyClosed == Spec => []OnlyClosed
  <1>1. PagesInv => OnlyClosed
    <2> SUFFICES ASSUME PagesInv, pc = "done", NEW i \in DOMAIN retVal PROVE Closed(retVal[i])
      BY DEF OnlyClosed
    <2> DEFINE s == Sorted(Wanted)
    <2>1. retVal = WithoutNewest(s)
      BY DEF PagesInv, Complete
    <2>2. Wanted \in SUBSET Int /\ IsFiniteSet(Wanted)
      BY Types, SpanFacts DEF PagesInv, Wanted
    <2>3. s \in Seq(Wanted) /\ Ascending(s)
      BY <2>2, SortedFacts
    <2> HIDE DEF s
    <2>4. Len(s) \in Nat /\ i \in 1 .. Len(s) - 1 /\ retVal[i] = s[i]
      BY <2>1, <2>3 DEF WithoutNewest
    <2>5. s[i] \in Wanted /\ s[Len(s)] \in Wanted /\ s[i] < s[Len(s)]
      BY <2>3, <2>4 DEF Ascending
    <2>6. PICK t \in Traded : s[i] = Ms(t) /\ t \in Nat
      BY <2>5, OfWanted DEF PagesInv
    <2>7. PICK u \in Traded : s[Len(s)] = Ms(u) /\ u \in Nat /\ u <= askedAt
      BY <2>5, OfWanted DEF PagesInv
    <2>8. t < u
      BY <2>5, <2>6, <2>7 DEF Ms
    <2>9. u >= t + IntervalS /\ IntervalS \in Nat /\ askedAt \in Int
      BY <2>6, <2>7, <2>8, ConstantAssumption, Types DEF PagesInv
    <2>10. t + IntervalS <= askedAt
      BY <2>6, <2>7, <2>9
    <2> QED BY <2>4, <2>6, <2>9, <2>10 DEF Closed, Ms
  <1> QED BY <1>1, PagesAlways, PTL

\* What the writer has is, at any time and after an exception too, the newest candles of
\* the range, each once: it can go on from the oldest of them.
SavedIsNewest ==
    Ascending(written) /\ Elements(written) \subseteq Wanted /\ Download!NoHole(written, Wanted)

\* However the download ends, the pages given to the writer leave no hole.
THEOREM SavedWithoutHole == Spec => []SavedIsNewest
  <1>1. ASSUME PagesInv PROVE SavedIsNewest
    <2> SUFFICES ASSUME NEW c \in Elements(written), NEW d \in Wanted, c < d
                 PROVE  d \in Elements(written)
      BY <1>1 DEF SavedIsNewest, PagesInv, Download!NoHole, Download!Elements, Elements
    <2>1. TypeOK /\ Elements(written) \subseteq Wanted /\ c > Ms(currentEndTime)
      BY <1>1 DEF PagesInv
    <2>2. Wanted \subseteq Int /\ Ms(currentEndTime) \in Int
      BY <2>1, Types, SpanFacts DEF Wanted, Ms
    <2>3. c \in Int /\ d \in Int
      BY <2>1, <2>2
    <2>4. d > Ms(currentEndTime)
      BY <2>1, <2>2, <2>3
    <2> QED BY <1>1, <2>4 DEF PagesInv
  <1> QED BY <1>1, PagesAlways, PTL

\* The pages given to the writer grow backward from the end of the range.
THEOREM ImplementsBackwardDownload == Spec => GrowsBackward
  <1>1. Init => Download!Init
    BY DEF Init, Download!Init
  <1>2. PagesInv /\ PagesInv' /\ [Next]_vars => [Download!Next]_(Download!vars)
    <2> SUFFICES ASSUME PagesInv, PagesInv', [Next]_vars PROVE [Download!Next]_(Download!vars)
      OBVIOUS
    <2>1. CASE UNCHANGED vars \/ Begin \/ Tick
      BY <2>1 DEF vars, Begin, NextStep, Tick, Wanted, Download!vars
    <2>2. CASE Fetch
      <3>1. CASE written = <<>>
        BY <2>2, <3>1 DEF Fetch, Download!Next, Download!Trade
      <3>2. CASE written # <<>>
        BY <2>2, <3>2 DEF Fetch, Wanted, Download!vars
      <3> QED BY <3>1, <3>2
    <2>3. CASE Batch
      <3>1. /\ candles \in Seq(Int) /\ written \in Seq(Int) /\ candles # <<>>
        BY <2>3, Types DEF PagesInv, Batch
      <3>2. Len(written') > Len(written) /\ Download!Extends(written', written)
        BY <2>3, <3>1 DEF Batch, Download!Extends
      <3>3. Ascending(written') /\ Elements(written') \subseteq Wanted /\ Wanted' = Wanted
        BY <2>3, PageSaved DEF PagesInv
      <3>4. Download!NoHole(written', Wanted)
        <4> SUFFICES ASSUME NEW c \in Elements(written'), NEW d \in Wanted, c < d
                     PROVE  d \in Elements(written')
          BY DEF Download!NoHole, Download!Elements, Elements
        <4>1. d > Ms(currentEndTime') /\ d \in Wanted'
          <5>1. c \in Int /\ d \in Int /\ currentEndTime' \in Int /\ c > Ms(currentEndTime')
            <6>1. TypeOK /\ TypeOK'
              BY DEF PagesInv
            <6>2. Wanted \subseteq Int
              BY <6>1, Types, SpanFacts DEF Wanted
            <6>3. Elements(written') \subseteq Int /\ currentEndTime' \in Int
              <7>1. currentEndTime' \in Int
                BY <2>3, PageSaved
              <7>2. Elements(written') \subseteq Int
                BY <3>3, <6>2
              <7> QED BY <7>1, <7>2
            <6>4. c > Ms(currentEndTime')
              BY DEF PagesInv
            <6> QED BY <6>2, <6>3, <6>4
          <5>2. Ms(currentEndTime') \in Int
            BY <5>1 DEF Ms
          <5>3. d > Ms(currentEndTime')
            BY <5>1, <5>2
          <5> QED BY <3>3, <5>3
        <4> QED BY <4>1 DEF PagesInv
      <3>5. Download!Ascending(written') /\ Download!Elements(written') \subseteq Wanted
        BY <3>3 DEF Download!Ascending, Ascending, Download!Elements, Elements
      <3> QED BY <2>3, <3>2, <3>3, <3>4, <3>5 DEF Batch, NextStep, Download!Next, Download!Page
    <2>4. CASE Finish \/ Throws
      BY <2>4 DEF Finish, Throws, Wanted, Download!Next, Download!End
    <2> QED BY <2>1, <2>2, <2>3, <2>4 DEF Next, Step
  <1> QED BY <1>1, <1>2, PagesAlways, PTL DEF Spec, GrowsBackward, Download!Spec

-----------------------------------------------------------------------------
(* The safety half of termination. *)

\* What is left to do: a page is asked for, and saved, once per end of a request,
\* and ends move back.
Left ==
    LET ends == 3 * (currentEndTime + 2)
    IN  CASE pc = "begin"   -> ends + 2
          [] pc = "request" -> ends + 1
          [] pc = "loop"    -> ends
          [] OTHER          -> 0

\* Each step of the download leaves less to do, whatever the exchange answers: it
\* ends after as many steps as there are whole seconds up to the end of the range, a
\* few times over, if the calling thread runs on.
THEOREM StepsAreBounded == Spec => [](Left \in Nat) /\ [][Step => Left' < Left]_vars
  <1>1. ASSUME TypeOK PROVE Left \in Nat
    <2>1. currentEndTime + 2 \in Nat
      BY <1>1 DEF TypeOK
    <2> QED BY <2>1 DEF Left
  <1>2. ASSUME PagesInv, PagesInv', Step PROVE Left' < Left
    <2>0. /\ currentEndTime \in Int /\ currentEndTime >= -1
          /\ currentEndTime' \in Int /\ currentEndTime' >= -1
      BY <1>2 DEF PagesInv, TypeOK
    <2>1. CASE Begin
      BY <2>0, <2>1 DEF Begin, NextStep, Left
    <2>2. CASE Fetch
      BY <2>0, <2>2 DEF Fetch, Left
    <2>3. CASE Batch
      <3>1. PICK t \in Traded : /\ t \in Nat /\ Ms(t) \in Elements(candles)
                               /\ currentEndTime' = t - 1
        BY <1>2, <2>3, PageSaved
      <3>2. Ms(t) <= Ms(currentEndTime)
        BY <1>2, <3>1 DEF PagesInv, Rest
      <3>3. currentEndTime' < currentEndTime
        BY <2>0, <3>1, <3>2 DEF Ms
      <3>4. pc = "loop" /\ pc' \in {"request", "loop"}
        BY <2>3 DEF Batch, NextStep
      <3> QED BY <2>0, <3>3, <3>4 DEF Left
    <2>4. CASE Finish \/ Throws
      BY <2>0, <2>4 DEF Finish, Throws, Left
    <2> QED BY <1>2, <2>1, <2>2, <2>3, <2>4 DEF Step
  <1>3. PagesInv => TypeOK
    BY DEF PagesInv
  <1> QED BY <1>1, <1>2, <1>3, PagesAlways, PTL DEF Spec
=============================================================================

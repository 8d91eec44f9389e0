------------------------- MODULE SpotHistory_proofs -------------------------
(* Theorems about SpotHistory, for every market, reading, range and page size. *)
EXTENDS SpotHistory, SortedSets_proofs

-----------------------------------------------------------------------------
(* The candles of a span. *)

All == Between(0, endTime)

LEMMA SpanFacts ==
  ASSUME traded \in Markets, NEW from \in Nat, NEW to \in Int
  PROVE  /\ Between(from, to) \in SUBSET Int /\ Between(from, to) \in SUBSET Nat
         /\ IsFiniteSet(Between(from, to))
  <1>1. 0 \in Int /\ to \in Int
    OBVIOUS
  <1>2. Between(from, to) \subseteq 0 .. to
    <2>1. \A t \in traded : t \in Nat
      BY ConstantAssumption
    <2>2. \A t \in traded : t <= to => t \in 0 .. to
      BY <2>1
    <2> QED BY <2>2 DEF Between
  <1>3. IsFiniteSet(0 .. to)
    BY <1>1, FS_Interval, Zenon
  <1>4. 0 .. to \subseteq Nat /\ Nat \subseteq Int
    BY <1>1
  <1> QED BY <1>2, <1>3, <1>4, FS_Subset

LEMMA PageFacts ==
  ASSUME traded \in Markets, NEW from \in Nat, NEW to \in Int
  PROVE  /\ Answer(from, to) \in Seq(Nat) /\ Ascending(Answer(from, to))
         /\ Elements(Answer(from, to)) \subseteq Between(from, to)
         /\ Elements(Answer(from, to)) = IF from > 0 /\ fromStart
                                          THEN Oldest(Between(from, to), limit)
                                          ELSE Newest(Between(from, to), limit)
  <1> DEFINE S == Between(from, to)
             P == IF from > 0 /\ fromStart THEN Oldest(S, limit) ELSE Newest(S, limit)
  <1>1. S \in SUBSET Int /\ S \in SUBSET Nat /\ IsFiniteSet(S)
    BY SpanFacts
  <1>2. P \subseteq S
    BY DEF Oldest, Newest
  <1>3. P \in SUBSET Nat /\ P \in SUBSET Int /\ IsFiniteSet(P)
    BY <1>1, <1>2, FS_Subset
  <1>4. Sorted(P) \in Seq(P) /\ Ascending(Sorted(P)) /\ Elements(Sorted(P)) = P
    <2> HIDE DEF P
    <2> QED BY <1>3, SortedFacts
  <1>5. Sorted(P) \in Seq(Nat)
    <2> HIDE DEF P
    <2> QED BY <1>3, <1>4, WiderSeq
  <1> QED BY <1>2, <1>4, <1>5 DEF Answer

LEMMA Types ==
  ASSUME TypeOK
  PROVE  /\ currentEndTime \in Int /\ endTime \in Int /\ startTime \in Int
         /\ candles \in Seq(Int) /\ written \in Seq(Int)
         /\ Elements(candles) \subseteq Int /\ Elements(written) \subseteq Int
         /\ All \in SUBSET Int /\ IsFiniteSet(All)
  <1>1. /\ candles \in Seq(Nat) /\ written \in Seq(Nat)
    BY DEF TypeOK
  <1>2. /\ candles \in Seq(Int) /\ written \in Seq(Int)
    BY <1>1, WiderSeq
  <1>3. Elements(candles) \subseteq Int /\ Elements(written) \subseteq Int
    BY <1>2 DEF Elements
  <1>4. All \in SUBSET Int /\ IsFiniteSet(All)
    BY SpanFacts DEF TypeOK, All
  <1> QED BY <1>2, <1>3, <1>4 DEF TypeOK

-----------------------------------------------------------------------------
(* The inductive invariant: what is saved lies after currentEndTime, and a   *)
(* page before it; if answers have the newest candles, nothing is missing.   *)

Rest == {d \in All : d <= currentEndTime}

PagesInv ==
    /\ TypeOK
    /\ Ascending(candles) /\ Ascending(written)
    /\ pc \in {"begin", "request", "loop", "done"} => retVal = written
    /\ pc = "begin" => written = <<>>
    /\ pc \in {"begin", "request", "done"} => candles = <<>>
    /\ written = <<>> => currentEndTime = endTime
    /\ Elements(written) \subseteq All
    /\ \A c \in Elements(written) : c > currentEndTime
    /\ ~ fromStart => \A d \in All : d > currentEndTime => d \in Elements(written)
    /\ Elements(candles) \subseteq Rest
    /\ ~ fromStart => \A c \in Elements(candles), d \in Rest : c < d => d \in Elements(candles)

LEMMA InitPages == Init => PagesInv
  <1> SUFFICES ASSUME Init PROVE PagesInv
    OBVIOUS
  <1>1. TypeOK
    BY ConstantAssumption DEF Init, TypeOK
  <1>2. \A d \in All : ~ (d > currentEndTime)
    <2>1. \A d \in All : d \in Int /\ d <= endTime
      BY <1>1, Types DEF All, Between
    <2> QED BY <1>1, <2>1, Types DEF Init
  <1> QED BY <1>1, <1>2 DEF Init, PagesInv, Ascending, Elements

LEMMA BeginPages == ASSUME PagesInv, Begin PROVE PagesInv'
  <1>1. FirstStart \in Nat
    BY DEF PagesInv, TypeOK, FirstStart
  <1>2. TypeOK'
    BY <1>1 DEF PagesInv, TypeOK, Begin, given
  <1>3. All' = All /\ Rest' = Rest
    BY DEF Begin, given, All, Between, Rest
  <1> QED BY <1>2, <1>3 DEF PagesInv, Begin, given

LEMMA FetchPages == ASSUME PagesInv, Fetch PROVE PagesInv'
  <1> DEFINE S == Between(batchStartTime, currentEndTime)
  <1>1. traded \in Markets /\ batchStartTime \in Nat /\ currentEndTime \in Int
        /\ currentEndTime <= endTime /\ endTime \in Int
    BY DEF PagesInv, TypeOK
  <1>2. /\ candles' \in Seq(Nat) /\ Ascending(candles') /\ Elements(candles') \subseteq S
        /\ ~ fromStart => Elements(candles') = Newest(S, limit)
    BY <1>1, PageFacts DEF Fetch
  <1>3. TypeOK'
    BY <1>1, <1>2 DEF PagesInv, TypeOK, Fetch, given
  <1>4. All' = All /\ Rest' = Rest
    BY DEF Fetch, given, All, Between, Rest
  <1>5. S \in SUBSET Int /\ IsFiniteSet(S)
    BY <1>1, SpanFacts
  <1>6. \A d : d \in S => d \in Rest
    BY <1>1, <1>5 DEF Rest, All, Between
  <1>7. ASSUME ~ fromStart, NEW c \in Elements(candles'), NEW d \in Rest, c < d
        PROVE  d \in Elements(candles')
    <2>1. c \in S /\ c \in Newest(S, limit)
      BY <1>2, <1>7
    <2>2. d \in S
      <3>1. batchStartTime <= c /\ c \in Int /\ d \in Int
        BY <1>1, <1>5, <2>1, Types DEF Between, Rest, PagesInv
      <3>2. batchStartTime <= d /\ d <= currentEndTime
        BY <1>1, <1>7, <3>1 DEF Rest
      <3> QED BY <3>2 DEF Rest, All, Between
    <2> QED BY <1>2, <1>5, <1>7, <2>1, <2>2, NewestFacts, ConstantAssumption
  <1> QED BY <1>2, <1>3, <1>4, <1>6, <1>7 DEF PagesInv, Fetch, given

\* The next request ends an interval before the page's oldest candle.
LEMMA PageSaved ==
  ASSUME PagesInv, Batch
  PROVE  /\ TypeOK' /\ Ascending(written')
         /\ Elements(written') = Elements(candles) \cup Elements(written)
         /\ Head(candles) \in Elements(candles) /\ currentEndTime' = Head(candles) - intervalMs
         /\ \A c \in Elements(written') : Head(candles) <= c
  <1>1. /\ TypeOK /\ candles \in Seq(Int) /\ written \in Seq(Int) /\ candles # <<>>
        /\ Elements(candles) \subseteq Int /\ Elements(written) \subseteq Int
        /\ currentEndTime \in Int
    BY Types DEF PagesInv, Batch
  <1>2. /\ \A c \in Elements(candles) : c <= currentEndTime
        /\ \A c \in Elements(written) : c > currentEndTime
    BY DEF PagesInv, Rest
  <1>3. \A c \in Elements(candles), d \in Elements(written) : c < d
    BY <1>1, <1>2
  <1>4. /\ Ascending(written')
        /\ Elements(written') = Elements(candles) \cup Elements(written)
    BY <1>1, <1>3, Concatenation DEF PagesInv, Batch
  <1>5. /\ Head(candles) \in Elements(candles)
        /\ \A c \in Elements(candles) : Head(candles) <= c
    BY <1>1, FirstAndLast DEF PagesInv
  <1>6. \A c \in Elements(written') : Head(candles) <= c
    BY <1>1, <1>3, <1>4, <1>5
  <1>7. TypeOK'
    <2>1. candles \in Seq(Nat) /\ written \in Seq(Nat) /\ retVal = written
      BY DEF PagesInv, TypeOK, Batch
    <2>2. candles \o written \in Seq(Nat)
      BY <2>1
    <2>3. currentEndTime' \in Int /\ currentEndTime' <= endTime
      BY <1>1, <1>2, <1>5, ConstantAssumption DEF TypeOK, Batch, EndBefore
    <2>4. batchStartTime' \in Nat
      <3>1. BatchStart(currentEndTime') \in Nat
        <4> DEFINE m == limit * intervalMs
        <4>1. m \in Int /\ startTime \in Nat /\ currentEndTime' - m \in Int
          BY <1>1, <2>3, ConstantAssumption DEF TypeOK
        <4>2. BatchStart(currentEndTime') =
                  IF startTime > currentEndTime' - m THEN startTime ELSE currentEndTime' - m
          BY DEF BatchStart, Batch, given
        <4> HIDE DEF m
        <4> QED BY <4>1, <4>2
      <3> QED BY <1>1, <3>1 DEF Batch, TypeOK
    <2> QED BY <1>1, <2>1, <2>2, <2>3, <2>4 DEF TypeOK, Batch, Accumulated, given
  <1> QED BY <1>4, <1>5, <1>6, <1>7 DEF Batch, EndBefore

LEMMA BatchPages == ASSUME PagesInv, Batch PROVE PagesInv'
  <1> DEFINE h == Head(candles)
  <1>1. /\ TypeOK /\ candles # <<>> /\ Elements(candles) \subseteq Int /\ Elements(written) \subseteq Int
        /\ currentEndTime \in Int /\ intervalMs \in Int /\ intervalMs > 0
    BY Types, ConstantAssumption DEF PagesInv, Batch
  <1>2. All' = All /\ All \subseteq Int
    BY <1>1, Types DEF Batch, given, All, Between
  <1>3. /\ TypeOK' /\ Ascending(written')
        /\ Elements(written') = Elements(candles) \cup Elements(written)
        /\ h \in Elements(candles) /\ currentEndTime' = h - intervalMs
        /\ \A c \in Elements(written') : h <= c
    BY PageSaved
  <1> HIDE DEF h
  <1>4. Elements(written') \subseteq All'
    BY <1>2, <1>3 DEF PagesInv, Rest
  <1>5. \A c \in Elements(written') : c > currentEndTime'
    BY <1>1, <1>3
  <1>6. ASSUME ~ fromStart, NEW d \in All, d > currentEndTime'
        PROVE  d \in Elements(written')
    <2>1. d \in Int /\ h \in Int /\ h \in All /\ d \in traded /\ h \in traded
      BY <1>1, <1>2, <1>3 DEF PagesInv, Rest, All, Between
    <2>2. ~ (d < h)
      <3>1. d < h => h >= d + intervalMs
        BY <1>1, <2>1, ConstantAssumption DEF TypeOK
      <3> QED BY <1>1, <1>3, <1>6, <2>1, <3>1
    <2>3. CASE d = h
      BY <1>3, <2>3
    <2>4. CASE h < d
      <3>1. d \in Rest \/ d > currentEndTime
        BY <1>1, <2>1 DEF Rest
      <3> QED BY <1>3, <1>6, <2>4, <3>1 DEF PagesInv
    <2> QED BY <2>1, <2>2, <2>3, <2>4
  <1>7. written' # <<>>
    <2>1. h \in Elements(written')
      BY <1>3
    <2> QED BY <2>1 DEF Elements
  <1>8. Ascending(candles') /\ Elements(candles') = {} /\ candles' = <<>>
    BY DEF Batch, Ascending, Elements
  <1>9. retVal' = written' /\ pc' \in {"request", "loop"} /\ fromStart' = fromStart
    BY DEF PagesInv, Batch, Accumulated, given
  <1> QED BY <1>2, <1>3, <1>4, <1>5, <1>6, <1>7, <1>8, <1>9 DEF PagesInv

LEMMA EndPages == ASSUME PagesInv, Finish \/ Throws PROVE PagesInv'
  <1>1. TypeOK'
    <2>1. CASE Finish
      BY <2>1 DEF PagesInv, TypeOK, Finish, given
    <2>2. CASE Throws
      BY <2>2 DEF PagesInv, TypeOK, Throws, given
    <2> QED BY <2>1, <2>2
  <1>2. All' = All /\ Rest' = Rest
    BY DEF Finish, Throws, given, All, Between, Rest
  <1> QED BY <1>1, <1>2 DEF PagesInv, Finish, Throws, given, Ascending, Elements

LEMMA StepPages == PagesInv /\ [Next]_vars => PagesInv'
  <1> SUFFICES ASSUME PagesInv, [Next]_vars PROVE PagesInv'
    OBVIOUS
  <1>1. CASE UNCHANGED vars
    BY <1>1 DEF PagesInv, vars, given, TypeOK, All, Between, Rest
  <1> QED BY <1>1, BeginPages, FetchPages, BatchPages, EndPages DEF Next

LEMMA PagesAlways == Spec => []PagesInv
  BY InitPages, StepPages, PTL DEF Spec

\* getHistoricalPrices() keeps its times and lists well-formed.
THEOREM TypeCorrect == Spec => []TypeOK
  <1>1. PagesInv => TypeOK
    BY DEF PagesInv
  <1> QED BY <1>1, PagesAlways, PTL

\* The pages given to the writer grow backward from the end of the range, without an
\* overlap, and without a hole if answers have the newest candles.
THEOREM ImplementsBackwardDownload == Spec => GrowsBackward
  <1>1. Init => Download!Init
    BY DEF Init, Download!Init
  <1>2. PagesInv /\ PagesInv' /\ [Next]_vars => [Download!Next]_(Download!vars)
    <2> SUFFICES ASSUME PagesInv, PagesInv', [Next]_vars PROVE [Download!Next]_(Download!vars)
      OBVIOUS
    <2>0. [Next]_vars => UNCHANGED given
      BY DEF vars, Next, Begin, Fetch, Batch, Finish, Throws
    <2>1. CASE UNCHANGED vars \/ Begin \/ Fetch
      BY <2>1 DEF vars, Begin, Fetch, given, Between, Download!vars
    <2>2. CASE Batch
      <3>1. /\ candles \in Seq(Int) /\ written \in Seq(Int) /\ candles # <<>>
        BY <2>2, Types DEF PagesInv, Batch
      <3>2. Len(written') > Len(written) /\ Download!Extends(written', written)
        BY <2>2, <3>1 DEF Batch, Download!Extends
      <3>3. All' = All /\ fromStart' = fromStart /\ Between(0, endTime)' = Between(0, endTime)
        BY <2>2 DEF Batch, given, All, Between
      <3>4. Ascending(written') /\ Elements(written') \subseteq All
        BY <3>3 DEF PagesInv
      <3>5. ASSUME ~ fromStart PROVE Download!NoHole(written', All)
        <4> SUFFICES ASSUME NEW c \in Elements(written'), NEW d \in All, c < d
                     PROVE  d \in Elements(written')
          BY DEF Download!NoHole, Download!Elements, Elements
        <4>1. TypeOK /\ TypeOK'
          BY DEF PagesInv
        <4>2. c > currentEndTime' /\ currentEndTime' \in Int /\ c \in Int /\ d \in Int
          BY <3>4, <4>1, Types DEF PagesInv, TypeOK
        <4>3. d > currentEndTime'
          BY <4>2
        <4> QED BY <3>3, <3>5, <4>3 DEF PagesInv
      <3>6. Download!Ascending(written') /\ Download!Elements(written') \subseteq All
        BY <3>4 DEF Download!Ascending, Ascending, Download!Elements, Elements
      <3> QED BY <2>2, <3>2, <3>3, <3>5, <3>6 DEF Batch, All, Download!Next, Download!Page
    <2>3. CASE Finish \/ Throws
      BY <2>3 DEF Finish, Throws, given, Between, Download!Next, Download!End
    <2> QED BY <2>1, <2>2, <2>3 DEF Next
  <1> QED BY <1>1, <1>2, PagesAlways, PTL DEF Spec, GrowsBackward, Download!Spec

\* What the writer has is ascending, so without a repetition; and if the exchange answers
\* with the newest candles of a span, it has no hole, however the download ends.
THEOREM SavedWithoutHole == Spec => [](Ascending(written) /\ (~ fromStart => Unbroken))
  <1>1. ASSUME PagesInv, ~ fromStart PROVE Unbroken
    <2> SUFFICES ASSUME NEW c \in Elements(written), NEW d \in All, c < d
                 PROVE  d \in Elements(written)
      BY DEF Unbroken, All, Download!NoHole, Download!Elements, Elements
    <2>1. TypeOK /\ c > currentEndTime
      BY <1>1 DEF PagesInv
    <2>2. c \in Int /\ d \in Int /\ currentEndTime \in Int
      BY <2>1, Types
    <2>3. d > currentEndTime
      BY <2>1, <2>2
    <2> QED BY <1>1, <2>3 DEF PagesInv
  <1>2. PagesInv => Ascending(written)
    BY DEF PagesInv
  <1> QED BY <1>1, <1>2, PagesAlways, PTL

-----------------------------------------------------------------------------
(* The plain case: a page that is asked for holds candles, all of the range,   *)
(* and leaves out at most its newest.                                          *)

LEMMA OldestSome ==
  ASSUME NEW S \in SUBSET Int, IsFiniteSet(S), NEW n \in Nat \ {0}, Oldest(S, n) = {}
  PROVE  S = {}
  <1> SUFFICES ASSUME S # {} PROVE FALSE
    OBVIOUS
  <1>1. PICK x \in S : \A y \in S : x <= y
    BY Extremes
  <1>2. {y \in S : y < x} = {}
    <2>1. \A y \in S : y \in Int /\ x \in Int /\ x <= y
      BY <1>1
    <2>2. \A y \in S : ~ (y < x)
      BY <2>1
    <2> QED BY <2>2
  <1>3. Cardinality({y \in S : y < x}) < n
    BY <1>2, FS_EmptySet
  <1> QED BY <1>3 DEF Oldest

\* If the market trades in every interval, a candle that has an older one in the
\* market has one an interval before.
LEMMA Predecessor ==
  ASSUME TypeOK, Plain, NEW o \in All, NEW d \in traded, d < o
  PROVE  o - intervalMs \in traded /\ d <= o - intervalMs
  <1> DEFINE S == {t \in traded : t < o}
  <1>1. /\ \A t \in traded : t \in Nat
        /\ o \in traded /\ o <= now /\ now \in Int /\ o \in Int /\ intervalMs \in Int
    BY ConstantAssumption DEF TypeOK, All, Between
  <1>2. IsFiniteSet(S) /\ S \in SUBSET Int
    <2>1. \A t \in traded : t < o => t \in 0 .. o
      BY <1>1
    <2>2. S \subseteq 0 .. o
      BY <2>1
    <2>3. 0 \in Int /\ o \in Int /\ 0 .. o \subseteq Int
      BY <1>1
    <2>4. IsFiniteSet(0 .. o)
      BY <2>3, FS_Interval, Zenon
    <2> QED BY <2>2, <2>3, <2>4, FS_Subset
  <1>3. PICK e \in S : \A y \in S : y <= e
    BY <1>2, Extremes
  <1>4. e \in traded /\ e \in Int /\ o >= e + intervalMs
    BY <1>1, <1>3, ConstantAssumption DEF TypeOK
  <1>5. e + intervalMs \in traded
    BY <1>1, <1>4 DEF Plain
  <1>6. ~ (e + intervalMs < o)
    <2>1. e + intervalMs < o => e + intervalMs <= e
      BY <1>3, <1>5
    <2> QED BY <1>4, <2>1, <1>1, ConstantAssumption
  <1>7. e = o - intervalMs
    BY <1>1, <1>4, <1>6
  <1>8. d <= e
    BY <1>3
  <1> QED BY <1>4, <1>7, <1>8

\* From a candle on that is n intervals before the end, there are n more.
LEMMA FullPage ==
  ASSUME TypeOK, Plain, NEW t \in All, t + limit * intervalMs <= endTime
  PROVE  t \notin Newest(All, limit)
  <1> DEFINE at(k) == t + k * intervalMs
             K == {k \in 0 .. limit : at(k) \in traded}
             G == {k \in 0 .. limit : 0 .. k \subseteq K}
  <1>1. /\ t \in Nat /\ t \in traded /\ limit \in Nat /\ limit > 0 /\ intervalMs \in Nat /\ intervalMs > 0
        /\ endTime \in Nat /\ now \in Nat /\ endTime <= now
    BY ConstantAssumption DEF TypeOK, All, Between, Plain
  <1>2. /\ \A k \in 0 .. limit : at(k) \in Nat
        /\ \A k \in 0 .. limit - 1 : at(k + 1) = at(k) + intervalMs
        /\ \A j, k \in 0 .. limit : j < k => at(j) < at(k)
        /\ \A k \in 0 .. limit : at(k) <= endTime
    <2>1. \A k \in Nat : k * intervalMs \in Nat
      BY <1>1
    <2>2. \A k \in Nat : (k + 1) * intervalMs = k * intervalMs + intervalMs
      BY <1>1
    <2>3. \A j, k \in Nat : j < k => j * intervalMs < k * intervalMs
      BY <1>1
    <2> QED BY <1>1, <2>1, <2>2, <2>3
  <1>3. limit \in G
    <2>1. 0 \in G
      BY <1>1
    <2>2. IsFiniteSet(G) /\ G \in SUBSET Int
      <3>1. 0 \in Int /\ limit \in Int /\ 0 .. limit \subseteq Int
        BY <1>1
      <3>2. IsFiniteSet(0 .. limit)
        BY <3>1, FS_Interval, Zenon
      <3> QED BY <3>1, <3>2, FS_Subset
    <2>3. PICK k \in G : \A j \in G : j <= k
      BY <2>1, <2>2, Extremes
    <2>4. ASSUME k # limit PROVE k + 1 \in G
      <3>1. k \in 0 .. limit - 1 /\ k + 1 \in 0 .. limit /\ k \in K
        BY <1>1, <2>3, <2>4
      <3>2. at(k) \in traded /\ at(k + 1) = at(k) + intervalMs /\ at(k + 1) <= endTime
            /\ at(k + 1) \in Nat
        BY <1>2, <3>1
      <3>3. at(k + 1) <= now
        BY <1>1, <3>2
      <3> HIDE DEF at
      <3>4. at(k + 1) \in traded
        BY <3>2, <3>3 DEF Plain
      <3>5. 0 .. k \subseteq K /\ k + 1 \in K
        BY <2>3, <3>1, <3>4
      <3>6. 0 .. k + 1 \subseteq K
        BY <3>1, <3>5
      <3> QED BY <3>1, <3>6
    <2>5. k + 1 \in G => k + 1 <= k
      BY <2>3
    <2>6. k \in Int
      BY <2>3
    <2> QED BY <2>3, <2>4, <2>5, <2>6
  <1>4. \A k \in 1 .. limit : at(k) \in traded
    BY <1>3, <1>1
  <1> DEFINE After == {u \in All : u > t}
             f == [k \in 1 .. limit |-> at(k)]
  <1>5. \A k \in 1 .. limit : at(k) \in After
    <2>1. at(0) = t
      BY <1>1
    <2>2. \A k \in 1 .. limit : k \in 0 .. limit /\ 0 < k /\ 0 \in 0 .. limit
      BY <1>1
    <2>3. \A k \in 1 .. limit : at(k) > t /\ at(k) <= endTime /\ at(k) \in Nat
      BY <1>1, <1>2, <2>1, <2>2
    <2> HIDE DEF at
    <2> QED BY <1>1, <1>4, <2>3 DEF All, Between
  <1>6. f \in Injection(1 .. limit, After)
    <2>1. \A j, k \in 1 .. limit : at(j) = at(k) => j = k
      <3>1. \A k \in 1 .. limit : k \in 0 .. limit /\ at(k) \in Nat
        BY <1>1, <1>2
      <3>2. \A j, k \in 1 .. limit : j < k => at(j) < at(k)
        BY <1>2, <3>1
      <3> HIDE DEF at
      <3> QED BY <3>1, <3>2
    <2> HIDE DEF at, After
    <2> QED BY <1>5, <2>1 DEF Injection, IsInjective
  <1>7. IsFiniteSet(After)
    BY Types, FS_Subset
  <1>8. IsFiniteSet(1 .. limit) /\ Cardinality(1 .. limit) = limit
    <2>1. 1 \in Int /\ limit \in Int /\ limit >= 1
      BY <1>1
    <2>2. IsFiniteSet(1 .. limit) /\ Cardinality(1 .. limit) = IF 1 > limit THEN 0 ELSE limit - 1 + 1
      BY <2>1, FS_Interval, Zenon
    <2>3. Cardinality(1 .. limit) = limit
      BY <2>1, <2>2
    <2> QED BY <2>2, <2>3
  <1>9. Cardinality(After) >= limit
    <2> HIDE DEF After, f
    <2>1. Cardinality(1 .. limit) <= Cardinality(After)
      BY <1>6, <1>7, <1>8, FS_Injection
    <2>2. Cardinality(After) \in Nat
      BY <1>7, FS_CardinalityType
    <2> QED BY <1>1, <1>8, <2>1, <2>2
  <1>10. Cardinality(After) \in Nat
    BY <1>7, FS_CardinalityType
  <1>11. ~ (Cardinality(After) < limit)
    BY <1>1, <1>9, <1>10
  <1> QED BY <1>11 DEF Newest

LEMMA Quotient ==
  ASSUME NEW a \in Nat, NEW b \in Nat \ {0}
  PROVE  \E q \in Nat : q * b <= a /\ a < q * b + b
  <1>1. a \div b \in Nat
    OBVIOUS
  <1>2. (a \div b) * b <= a /\ a < (a \div b) * b + b
    OBVIOUS
  <1> QED BY <1>1, <1>2

\* A span of `limit' intervals has one candle more than an answer at most: the oldest
\* of it include the candle before any.
LEMMA OneShort ==
  ASSUME TypeOK, Plain, NEW from \in Nat, NEW to \in Int, to <= endTime,
         to <= from + limit * intervalMs,
         NEW c \in Between(from, to), NEW d \in Between(from, to), c < d
  PROVE  d - intervalMs \in Oldest(Between(from, to), limit)
  <1> DEFINE S == Between(from, to)
             m == limit * intervalMs
             e == d - intervalMs
             X == {s \in S : s < e}
             T == 1 .. limit - 1
             Fits(s, k) == (k - 1) * intervalMs <= s - from /\ s - from < k * intervalMs
             f == [s \in X |-> CHOOSE k \in T : Fits(s, k)]
  <1>1. /\ S \in SUBSET Int /\ IsFiniteSet(S) /\ S \subseteq traded
        /\ from \in Nat /\ to \in Int /\ m \in Nat /\ intervalMs \in Nat /\ intervalMs > 0
        /\ limit \in Nat /\ limit > 0 /\ d \in S /\ c \in S /\ c \in Int /\ d \in Int
    <2>1. S \in SUBSET Int /\ IsFiniteSet(S) /\ S \subseteq traded
      BY SpanFacts DEF TypeOK, Between
    <2>2. limit \in Nat /\ limit > 0 /\ intervalMs \in Nat /\ intervalMs > 0
      BY ConstantAssumption
    <2>3. m \in Nat
      BY <2>2
    <2> HIDE DEF m, S
    <2>4. d \in S /\ c \in S
      BY DEF S
    <2> QED BY <2>1, <2>2, <2>3, <2>4
  <1>2. d \in All /\ c \in traded
    BY <1>1, ConstantAssumption DEF TypeOK, All, Between
  <1>3. e \in traded /\ c <= e
    BY <1>2, Predecessor
  <1>4. e \in S /\ e \in Int
    <2>1. from <= c /\ d <= to /\ d <= now /\ now \in Int
      BY ConstantAssumption DEF Between
    <2> QED BY <1>1, <1>3, <2>1 DEF Between
  <1>5. ASSUME NEW s \in X PROVE s - from \in Nat /\ s - from <= m - 2 * intervalMs
    <2>1. s \in Int /\ s \in traded /\ from <= s /\ s < e /\ d <= to
      BY <1>1 DEF Between
    <2>2. s + intervalMs <= e
      BY <1>3, <2>1, ConstantAssumption DEF TypeOK
    <2> HIDE DEF m, X, S
    <2> QED BY <1>1, <2>1, <2>2 DEF m
  <1>6. ASSUME NEW s \in X PROVE \E k \in T : Fits(s, k)
    <2>1. PICK q \in Nat : q * intervalMs <= s - from /\ s - from < q * intervalMs + intervalMs
      <3>1. s - from \in Nat /\ intervalMs \in Nat \ {0}
        BY <1>1, <1>5
      <3> HIDE DEF X
      <3> QED BY <3>1, Quotient
    <2>2. q + 1 \in T
      <3>1. q >= limit - 1 => q * intervalMs >= (limit - 1) * intervalMs
        BY <1>1, <2>1
      <3>2. (limit - 1) * intervalMs = m - intervalMs /\ q * intervalMs \in Int
        BY <1>1, <2>1
      <3>3. q * intervalMs <= m - 2 * intervalMs
        <4>1. q * intervalMs <= s - from /\ s - from \in Nat /\ s - from <= m - 2 * intervalMs
          BY <1>5, <2>1
        <4> HIDE DEF m, X
        <4> QED BY <1>1, <3>2, <4>1
      <3>4. ~ (q >= limit - 1)
        <4> HIDE DEF m, X
        <4> QED BY <1>1, <3>1, <3>2, <3>3
      <3> HIDE DEF m, X
      <3> QED BY <1>1, <2>1, <3>4
    <2>3. ((q + 1) - 1) * intervalMs = q * intervalMs /\ (q + 1) * intervalMs = q * intervalMs + intervalMs
      BY <1>1, <2>1
    <2>4. Fits(s, q + 1)
      BY <2>1, <2>3
    <2> QED BY <2>2, <2>4
  <1>7. \A s \in X : f[s] \in T /\ Fits(s, f[s])
    <2> HIDE DEF T, X, Fits
    <2> QED BY <1>6
  <1>8. \A s, u \in X : s < u => f[s] # f[u]
    <2> SUFFICES ASSUME NEW s \in X, NEW u \in X, s < u, f[s] = f[u] PROVE FALSE
      OBVIOUS
    <2>1. u >= s + intervalMs /\ s \in Int /\ u \in Int
      BY <1>1, ConstantAssumption DEF TypeOK
    <2>2. PICK k \in T : k = f[s]
      BY <1>7
    <2>3. Fits(s, k) /\ Fits(u, k)
      BY <1>7, <2>2
    <2>4. (k - 1) * intervalMs = k * intervalMs - intervalMs /\ k * intervalMs \in Int
      BY <1>1, <2>2
    <2> HIDE DEF X, f
    <2> QED BY <1>1, <2>1, <2>3, <2>4
  <1>9. f \in Injection(X, T)
    <2>1. \A s, u \in X : s \in Int /\ u \in Int
      BY <1>1
    <2>2. \A s, u \in X : f[s] = f[u] => s = u
      <3> HIDE DEF X, f
      <3> QED BY <1>8, <2>1
    <2> HIDE DEF X, T
    <2> QED BY <1>7, <2>2 DEF Injection, IsInjective
  <1>10. IsFiniteSet(T) /\ Cardinality(T) = limit - 1
    <2>1. limit - 1 \in Nat
      BY <1>1
    <2> QED BY <2>1, CountTo
  <1>11. Cardinality(X) <= Cardinality(T)
    <2> HIDE DEF X, T, f
    <2> QED BY <1>9, <1>10, FS_Injection
  <1>12. IsFiniteSet(X)
    BY <1>1, FS_Subset
  <1>13. Cardinality(X) \in Nat
    BY <1>12, FS_CardinalityType
  <1>14. Cardinality(X) < limit
    BY <1>1, <1>10, <1>11, <1>13
  <1> HIDE DEF S, e
  <1>15. e \in Oldest(S, limit)
    BY <1>4, <1>14 DEF Oldest
  <1> QED BY <1>15 DEF S, e

\* Whether d is in a page, or it is the one left out after one that is.
Near(d, page) == d \in page \/ (fromStart /\ d - intervalMs \in page)

PlainInv ==
    Plain =>
        /\ pc = "request" => Asks(currentEndTime)
        /\ pc = "request" /\ written = <<>> => batchStartTime = FirstStart
        /\ pc = "request" /\ written # <<>> => batchStartTime = BatchStart(currentEndTime)
        /\ written # <<>> => currentEndTime + intervalMs \in All
        /\ Elements(written) \subseteq Wanted /\ Elements(candles) \subseteq Wanted
        /\ \A d \in Wanted : d > currentEndTime => Near(d, Elements(written))
        /\ \A c \in Elements(candles), d \in Rest : c < d => Near(d, Elements(candles))
        /\ (pc = "loop" /\ candles = <<>>) \/ pc = "done" => \A d \in Wanted : d > currentEndTime

LEMMA GivenKept ==
  ASSUME UNCHANGED given
  PROVE  /\ All' = All /\ Wanted' = Wanted /\ Plain' = Plain /\ fromStart' = fromStart
         /\ startTime' = startTime /\ endTime' = endTime
  BY DEF given, All, Wanted, Between, Plain

LEMMA PlainFacts ==
  ASSUME PagesInv, Plain
  PROVE  /\ TypeOK /\ endTime <= now /\ Wanted \subseteq All /\ Wanted \subseteq Int
         /\ Wanted = {d \in All : startTime <= d}
         /\ currentEndTime \in Int /\ startTime \in Int /\ endTime \in Int /\ currentEndTime <= endTime
         /\ limit * intervalMs \in Nat /\ intervalMs \in Nat /\ intervalMs > 0
  <1>1. TypeOK /\ \A t \in traded : t \in Nat
    BY ConstantAssumption DEF PagesInv, TypeOK
  <1>2. startTime \in Nat
    BY <1>1 DEF TypeOK
  <1>3. Wanted = {d \in All : startTime <= d}
    BY <1>1, <1>2 DEF Wanted, All, Between
  <1> QED BY <1>1, <1>3, Types, ConstantAssumption DEF Plain, TypeOK

LEMMA FetchPlain == ASSUME PagesInv, PlainInv, Fetch PROVE PlainInv'
  <1>1. UNCHANGED given /\ pc' = "loop" /\ written' = written /\ currentEndTime' = currentEndTime
    BY DEF Fetch
  <1> SUFFICES ASSUME Plain PROVE PlainInv'
    BY <1>1, GivenKept DEF PlainInv
  <1> DEFINE S == Between(batchStartTime, currentEndTime)
             m == limit * intervalMs
             page == Elements(candles')
  <1>2. /\ TypeOK /\ endTime <= now /\ Wanted \subseteq All /\ Wanted \subseteq Int
        /\ Wanted = {d \in All : startTime <= d}
        /\ currentEndTime \in Int /\ startTime \in Int /\ endTime \in Int /\ currentEndTime <= endTime
        /\ m \in Nat /\ intervalMs \in Nat /\ intervalMs > 0
    BY PlainFacts
  <1>3. /\ batchStartTime \in Nat /\ traded \in Markets /\ startTime <= currentEndTime
        /\ \A t \in traded : t \in Nat
    BY ConstantAssumption DEF PagesInv, TypeOK, PlainInv, Fetch, Asks
  <1>4. page = IF batchStartTime > 0 /\ fromStart THEN Oldest(S, limit) ELSE Newest(S, limit)
    BY <1>2, <1>3, PageFacts DEF Fetch
  <1>5. S \in SUBSET Int /\ IsFiniteSet(S)
    BY <1>2, <1>3, SpanFacts
  <1>6. /\ written = <<>> => /\ currentEndTime = endTime
                            /\ batchStartTime = IF endTime - startTime > m THEN 0 ELSE startTime
        /\ written # <<>> => /\ batchStartTime = IF startTime > currentEndTime - m
                                                  THEN startTime ELSE currentEndTime - m
                             /\ currentEndTime + intervalMs \in All
    BY DEF PagesInv, PlainInv, Fetch, FirstStart, BatchStart
  <1> HIDE DEF m
  <1>7. ASSUME NEW c \in page PROVE c \in S /\ c \in Wanted
    <2>1. c \in S /\ c \in Int /\ c \in All
      <3>1. c \in S
        BY <1>4, <1>7 DEF Newest, Oldest
      <3> QED BY <1>2, <1>3, <1>5, <3>1 DEF All, Between
    <2>2. CASE startTime <= batchStartTime
      BY <1>2, <1>3, <2>1, <2>2 DEF Between
    <2>3. CASE written = <<>> /\ endTime - startTime > m
      <3>1. S = All /\ page = Newest(All, limit)
        BY <1>4, <1>6, <2>3 DEF All
      <3>2. ~ (c + limit * intervalMs <= endTime)
        <4> HIDE DEF page
        <4> QED BY <1>2, <1>7, <2>1, <3>1, FullPage
      <3>3. startTime <= c
        BY <1>2, <2>1, <2>3, <3>2 DEF m
      <3> QED BY <1>2, <2>1, <3>3
    <2>4. startTime <= batchStartTime \/ (written = <<>> /\ endTime - startTime > m)
      BY <1>2, <1>6
    <2> QED BY <2>1, <2>2, <2>3, <2>4
  <1>8. ASSUME candles' = <<>>, NEW d \in Wanted PROVE d > currentEndTime
    <2>1. S = {}
      <3>1. page = {}
        BY <1>8 DEF Elements
      <3>2. Newest(S, limit) = {} => S = {}
        BY <1>5, NewestFacts, ConstantAssumption
      <3>3. Oldest(S, limit) = {} => S = {}
        BY <1>5, OldestSome, ConstantAssumption
      <3> QED BY <1>4, <3>1, <3>2, <3>3
    <2>2. d \in All /\ d \in Int /\ d \in traded /\ d <= now /\ startTime <= d
      BY <1>2 DEF All, Between
    <2> SUFFICES ASSUME d <= currentEndTime PROVE FALSE
      BY <1>2, <2>2
    <2>3. ~ (batchStartTime <= d)
      BY <2>1, <2>2 DEF Between
    <2>4. written # <<>> /\ batchStartTime = currentEndTime - m
      BY <1>2, <1>3, <1>6, <2>2, <2>3
    <2>5. currentEndTime \in traded
      <3>1. currentEndTime + intervalMs \in All /\ d < currentEndTime + intervalMs
        BY <1>2, <1>6, <2>2, <2>4
      <3>2. (currentEndTime + intervalMs) - intervalMs \in traded
        BY <1>2, <2>2, <3>1, Predecessor
      <3> QED BY <1>2, <3>2
    <2>6. currentEndTime <= now
      BY <1>2, ConstantAssumption
    <2>7. currentEndTime \in S
      BY <1>2, <2>4, <2>5, <2>6 DEF Between
    <2> QED BY <2>1, <2>7
  <1>9. ASSUME NEW c \in page, NEW d \in Rest, c < d PROVE Near(d, page)
    <2>1. c \in S /\ c \in Int /\ batchStartTime <= c
      BY <1>5, <1>7 DEF Between
    <2>2. d \in S
      <3>1. d \in Int /\ d \in All /\ d <= currentEndTime
        BY <1>2, Types DEF Rest
      <3> HIDE DEF page
      <3>2. batchStartTime <= d
        BY <1>3, <1>9, <2>1, <3>1
      <3> QED BY <3>1, <3>2 DEF All, Between
    <2>3. CASE batchStartTime > 0 /\ fromStart
      <3>1. currentEndTime <= batchStartTime + m
        <4>1. batchStartTime = startTime \/ batchStartTime = currentEndTime - m
          BY <1>6, <2>3
        <4>2. batchStartTime = startTime /\ written = <<>> => currentEndTime <= batchStartTime + m
          BY <1>2, <1>6, <2>3
        <4>3. batchStartTime = startTime /\ written # <<>> => currentEndTime <= batchStartTime + m
          BY <1>2, <1>6
        <4> QED BY <1>2, <1>3, <4>1, <4>2, <4>3
      <3> HIDE DEF page
      <3>2. d - intervalMs \in Oldest(S, limit)
        BY <1>2, <1>3, <1>9, <2>1, <2>2, <3>1, OneShort DEF m
      <3> QED BY <1>4, <2>3, <3>2 DEF Near
    <2>4. CASE ~ (batchStartTime > 0 /\ fromStart)
      <3>1. page = Newest(S, limit)
        BY <1>4, <2>4
      <3> HIDE DEF page, S
      <3>2. d \in Newest(S, limit)
        BY <1>5, <1>9, <2>2, <3>1, NewestFacts, ConstantAssumption
      <3> QED BY <3>1, <3>2 DEF Near
    <2> QED BY <2>3, <2>4
  <1>10. Rest' = Rest /\ All' = All /\ Wanted' = Wanted /\ fromStart' = fromStart
    BY <1>1, GivenKept DEF Rest
  <1>11. \A d \in Wanted : d > currentEndTime => Near(d, Elements(written))'
    BY <1>1, <1>10 DEF PlainInv, Near
  <1>12. \A c \in page, d \in Rest : c < d => Near(d, Elements(candles))'
    BY <1>9, <1>10 DEF Near
  <1>13. page \subseteq Wanted
    BY <1>7
  <1> QED BY <1>1, <1>8, <1>10, <1>11, <1>12, <1>13 DEF PlainInv

LEMMA BatchPlain == ASSUME PagesInv, PlainInv, Batch PROVE PlainInv'
  <1>1. UNCHANGED given /\ pc' \in {"request", "loop"} /\ candles' = <<>> /\ PagesInv'
    BY BatchPages DEF Batch
  <1> SUFFICES ASSUME Plain PROVE PlainInv'
    BY <1>1, GivenKept DEF PlainInv
  <1>2. /\ Elements(written') = Elements(candles) \cup Elements(written)
        /\ Head(candles) \in Elements(candles) /\ currentEndTime' = Head(candles) - intervalMs
    BY PageSaved
  <1>3. /\ All' = All /\ Wanted' = Wanted /\ startTime' = startTime /\ startTime \in Int
        /\ Wanted \subseteq Int /\ Wanted \subseteq All /\ intervalMs \in Nat /\ fromStart' = fromStart
        /\ Wanted = {d \in All : startTime <= d}
    BY <1>1, GivenKept, PlainFacts
  <1>4. Elements(written') \subseteq Wanted' /\ Elements(candles') \subseteq Wanted'
    <2>1. Elements(candles') = {}
      BY <1>1 DEF Elements
    <2> QED BY <1>2, <1>3, <2>1 DEF PlainInv
  <1>5. written' # <<>>
    <2>1. Elements(<<>>) = {}
      BY DEF Elements
    <2> QED BY <1>2, <2>1
  <1>6. currentEndTime' + intervalMs \in All' /\ currentEndTime' \in Int
    <2>1. Head(candles) \in All /\ Head(candles) \in Int
      BY <1>2, <1>3 DEF PlainInv
    <2>2. (Head(candles) - intervalMs) + intervalMs = Head(candles)
      BY <1>3, <2>1
    <2> QED BY <1>2, <1>3, <2>1, <2>2
  <1>7. pc' = "request" => /\ Asks(currentEndTime)' /\ batchStartTime' = BatchStart(currentEndTime)'
    BY <1>3 DEF Batch, Asks, BatchStart
  <1>8. ASSUME pc' = "loop", NEW d \in Wanted PROVE d > currentEndTime'
    <2>1. ~ (startTime <= currentEndTime')
      BY <1>8 DEF Batch, Asks
    <2> QED BY <1>3, <1>6, <2>1
  <1>9. ASSUME NEW d \in Wanted, d > currentEndTime' PROVE Near(d, Elements(written))'
    <2>1. /\ d \in Int /\ d \in All /\ d \in traded /\ currentEndTime \in Int
          /\ Head(candles) \in Int /\ Head(candles) \in traded
      BY <1>2, <1>3, Types DEF PagesInv, PlainInv, All, Between
    <2>2. CASE d > currentEndTime
      <3>1. Near(d, Elements(written))
        BY <2>2 DEF PlainInv
      <3> QED BY <1>2, <1>3, <3>1 DEF Near
    <2>3. CASE Head(candles) < d /\ d <= currentEndTime
      <3>1. Near(d, Elements(candles))
        BY <1>2, <2>1, <2>3 DEF PlainInv, Rest
      <3> QED BY <1>2, <1>3, <3>1 DEF Near
    <2>4. CASE d = Head(candles)
      BY <1>2, <2>4 DEF Near
    <2>5. CASE d < Head(candles)
      <3>1. Head(candles) >= d + intervalMs
        BY <2>1, <2>5, ConstantAssumption DEF PagesInv, TypeOK
      <3> QED BY <1>2, <1>3, <1>9, <2>1, <3>1
    <2> QED BY <2>1, <2>2, <2>3, <2>4, <2>5
  <1>10. Elements(candles') = {}
    BY <1>1 DEF Elements
  <1> QED BY <1>1, <1>3, <1>4, <1>5, <1>6, <1>7, <1>8, <1>9, <1>10 DEF PlainInv

LEMMA StepPlain == PagesInv /\ PlainInv /\ [Next]_vars => PlainInv'
  <1> SUFFICES ASSUME PagesInv, PlainInv, [Next]_vars PROVE PlainInv'
    OBVIOUS
  <1>1. CASE UNCHANGED vars
    <2>1. UNCHANGED given
      BY <1>1 DEF vars
    <2> SUFFICES ASSUME Plain PROVE PlainInv'
      BY <2>1, GivenKept DEF PlainInv
    <2>2. /\ Rest' = Rest /\ Asks(currentEndTime)' = Asks(currentEndTime)
          /\ FirstStart' = FirstStart /\ BatchStart(currentEndTime)' = BatchStart(currentEndTime)
      BY <1>1, <2>1, GivenKept DEF vars, Asks, FirstStart, BatchStart, Rest
    <2>3. /\ \A d \in Wanted : d > currentEndTime => Near(d, Elements(written))'
          /\ \A c \in Elements(candles), d \in Rest : c < d => Near(d, Elements(candles))'
      BY <1>1, <2>1, GivenKept DEF vars, PlainInv, Near
    <2> QED BY <1>1, <2>1, <2>2, <2>3, GivenKept DEF vars, PlainInv
  <1>2. CASE Begin
    <2>1. UNCHANGED given /\ currentEndTime' = currentEndTime /\ written' = written /\ candles' = candles
      BY <1>2 DEF Begin
    <2> SUFFICES ASSUME Plain PROVE PlainInv'
      BY <2>1, GivenKept DEF PlainInv
    <2>2. written = <<>> /\ candles = <<>> /\ currentEndTime = endTime /\ Elements(<<>>) = {}
      BY <1>2 DEF PagesInv, Begin, Elements
    <2>3. \A d \in Wanted : ~ (d > currentEndTime)
      <3>1. \A d \in All : d \in Int /\ d <= endTime /\ endTime \in Int
        BY PlainFacts, Types DEF PagesInv, All, Between
      <3> QED BY <2>2, <3>1, PlainFacts
    <2>4. ASSUME ~ Asks(currentEndTime) PROVE Wanted = {}
      <3>1. \A d \in Wanted : d \in Int /\ d > currentEndTime
        BY <2>4, PlainFacts DEF Asks
      <3> QED BY <2>3, <3>1
    <2>5. pc' = "request" => Asks(currentEndTime)' /\ batchStartTime' = FirstStart'
      BY <1>2, <2>1, GivenKept DEF Begin, Asks, FirstStart
    <2>6. pc' = "loop" => ~ Asks(currentEndTime)
      BY <1>2 DEF Begin
    <2>7. pc' \in {"request", "loop"}
      BY <1>2 DEF Begin
    <2> QED BY <2>1, <2>2, <2>3, <2>4, <2>5, <2>6, <2>7, GivenKept DEF PlainInv
  <1>3. CASE Finish \/ Throws
    <2>1. UNCHANGED given /\ pc' \in {"done", "thrown"} /\ written' = written /\ candles' = <<>>
          /\ currentEndTime' = currentEndTime
      BY <1>3 DEF Finish, Throws
    <2> SUFFICES ASSUME Plain PROVE PlainInv'
      BY <2>1, GivenKept DEF PlainInv
    <2>2. Elements(candles') = {}
      BY <2>1 DEF Elements
    <2>3. pc' = "done" => pc = "loop" /\ candles = <<>>
      BY <1>3 DEF Finish, Throws
    <2>4. \A d \in Wanted : d > currentEndTime => Near(d, Elements(written))'
      BY <2>1, GivenKept DEF PlainInv, Near
    <2> QED BY <2>1, <2>2, <2>3, <2>4, GivenKept DEF PlainInv
  <1> QED BY <1>1, <1>2, <1>3, FetchPlain, BatchPlain DEF Next

\* In the plain case the result is of the range, the writer had it all, and of the closed
\* candles none is missing; or no two in a row, if an answer has the oldest of its span.
THEOREM DownloadComplete == Spec => []Complete
  <1>1. Init => PlainInv
    <2> SUFFICES ASSUME Init, Plain PROVE PlainInv
      BY DEF PlainInv
    <2>1. PagesInv /\ currentEndTime = endTime
      BY InitPages DEF Init
    <2>2. \A d \in Wanted : ~ (d > currentEndTime)
      <3>1. \A d \in All : d \in Int /\ d <= endTime /\ endTime \in Int
        BY <2>1, Types DEF PagesInv, All, Between
      <3> QED BY <2>1, <3>1, PlainFacts
    <2> QED BY <2>2 DEF Init, PlainInv, Elements
  <1>2. PagesInv /\ PlainInv => Complete
    <2> SUFFICES ASSUME PagesInv, PlainInv, Plain, pc = "done"
                 PROVE  /\ written = retVal /\ Elements(retVal) \subseteq Wanted
                        /\ \A c \in Wanted : Covered(c)
      BY DEF Complete
    <2>1. retVal = written /\ Elements(written) \subseteq Wanted
      BY DEF PagesInv, PlainInv
    <2>2. \A d \in Wanted : Near(d, Elements(written))
      BY DEF PlainInv
    <2> QED BY <2>1, <2>2 DEF Near, Covered
  <1> QED BY <1>1, <1>2, PagesAlways, StepPlain, PTL DEF Spec

-----------------------------------------------------------------------------
(* The safety half of termination. *)

\* No request ends earlier than an interval before the time 0.
EndInv == currentEndTime + intervalMs \in Nat

LEMMA EndNext == PagesInv /\ EndInv /\ [Next]_vars => EndInv'
  <1> SUFFICES ASSUME PagesInv, EndInv, [Next]_vars PROVE EndInv'
    OBVIOUS
  <1>1. CASE UNCHANGED currentEndTime
    BY <1>1 DEF EndInv
  <1>2. CASE Batch
    <2>1. candles \in Seq(Nat) /\ candles # <<>>
      BY <1>2 DEF PagesInv, TypeOK, Batch
    <2>2. Head(candles) \in Nat
      BY <2>1
    <2>3. (Head(candles) - intervalMs) + intervalMs = Head(candles)
      BY <2>2, ConstantAssumption
    <2> QED BY <1>2, <2>2, <2>3 DEF Batch, EndBefore, EndInv
  <1>3. CASE Begin \/ Fetch \/ Finish \/ Throws \/ UNCHANGED vars
    BY <1>1, <1>3 DEF Begin, Fetch, Finish, Throws, vars
  <1> QED BY <1>2, <1>3 DEF Next

\* What is left to do: a page is asked for, and saved, once per end of a request,
\* and ends move back.
Left ==
    LET ends == 3 * (currentEndTime + intervalMs + 1)
    IN  CASE pc = "begin"   -> ends + 2
          [] pc = "request" -> ends + 1
          [] pc = "loop"    -> ends
          [] OTHER          -> 0

\* Each step of the download leaves less to do, whatever the exchange answers and
\* whichever end of a span it counts from: the loop ends if the thread runs on.
THEOREM StepsAreBounded == Spec => [](Left \in Nat) /\ [][Left' < Left]_vars
  <1>1. Init => EndInv
    BY ConstantAssumption DEF Init, EndInv
  <1>2. ASSUME EndInv PROVE Left \in Nat
    BY <1>2 DEF EndInv, Left
  <1>3. ASSUME PagesInv, EndInv, EndInv', Next PROVE Left' < Left
    <2>0. /\ currentEndTime \in Int /\ intervalMs \in Int /\ intervalMs > 0
          /\ currentEndTime + intervalMs \in Nat /\ currentEndTime' + intervalMs \in Nat
      BY <1>3, ConstantAssumption DEF PagesInv, TypeOK, EndInv
    <2>1. CASE Begin
      BY <2>0, <2>1 DEF Begin, Left
    <2>2. CASE Fetch
      BY <2>0, <2>2 DEF Fetch, Left
    <2>3. CASE Batch
      <3>1. /\ Head(candles) \in Elements(candles) /\ currentEndTime' = Head(candles) - intervalMs
        BY <1>3, <2>3, PageSaved
      <3>2. Head(candles) <= currentEndTime /\ Head(candles) \in Int
        BY <1>3, <3>1, Types DEF PagesInv, Rest
      <3>3. currentEndTime' < currentEndTime /\ currentEndTime' \in Int
        BY <2>0, <3>1, <3>2
      <3>4. pc = "loop" /\ pc' \in {"request", "loop"}
        BY <2>3 DEF Batch
      <3> QED BY <2>0, <3>3, <3>4 DEF Left
    <2>4. CASE Finish \/ Throws
      BY <2>0, <2>4 DEF Finish, Throws, Left
    <2> QED BY <1>3, <2>1, <2>2, <2>3, <2>4 DEF Next
  <1> QED BY <1>1, <1>2, <1>3, PagesAlways, EndNext, PTL DEF Spec
=============================================================================

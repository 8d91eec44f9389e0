------------------------- MODULE RateLimiter_proofs -------------------------
(* Theorems about RateLimiter, and about the calls of the spot client that *)
(* wait for it, for every limit, window and set of threads.                *)
EXTENDS SpotCalls, SequenceTheorems, NaturalsInduction, FiniteSetTheorems, TLAPS

-----------------------------------------------------------------------------
(* The deque after pruning. *)

\* Pruning takes off a prefix of expired stamps, up to the first that is not.
LEMMA FirstLiveFacts ==
  ASSUME TypeOK
  PROVE  /\ FirstLive \in 1 .. Len(requestTimes) + 1
         /\ \A i \in 1 .. FirstLive - 1 : Expired(requestTimes[i])
         /\ FirstLive <= Len(requestTimes) => ~Expired(requestTimes[FirstLive])
  <1> DEFINE live == {i \in 1 .. Len(requestTimes) : ~Expired(requestTimes[i])}
  <1>0. Len(requestTimes) \in Nat
    BY DEF TypeOK
  <1>1. CASE live = {}
    <2>1. FirstLive = Len(requestTimes) + 1
      BY <1>1 DEF FirstLive
    <2>2. \A i \in 1 .. Len(requestTimes) : Expired(requestTimes[i])
      BY <1>1
    <2> QED BY <1>0, <2>1, <2>2
  <1>2. CASE live # {}
    <2>1. \E i \in live : \A j \in live : i <= j
      <3>1. live \subseteq Nat
        BY <1>0
      <3> DEFINE R == {ss \in Nat \X Nat : ss[1] < ss[2]}
      <3>2. IsWellFoundedOn(R, Nat)
        BY NatLessThanWellFounded DEF OpToRel
      <3>3. PICK i \in live : \A j \in live : ~(<<j, i>> \in R)
        <4> HIDE DEF live, R
        <4> QED BY <1>2, <3>1, <3>2, WFMin
      <3>4. ASSUME NEW j \in live PROVE i <= j
        <4>1. j \in Nat /\ i \in Nat
          BY <3>1
        <4>2. j < i => <<j, i>> \in R
          BY <4>1
        <4>3. <<j, i>> \notin R
          BY <3>3
        <4> HIDE DEF R
        <4> QED BY <4>1, <4>2, <4>3
      <3> QED BY <3>4
    <2>2. FirstLive \in live /\ \A j \in live : FirstLive <= j
      <3>1. FirstLive = CHOOSE i \in live : \A j \in live : i <= j
        BY <1>2 DEF FirstLive
      <3> HIDE DEF live
      <3> QED BY <2>1, <3>1
    <2> QED BY <1>0, <2>2
  <1> QED BY <1>1, <1>2

LEMMA PrunedFacts ==
  ASSUME TypeOK
  PROVE  /\ Pruned \in Seq(Nat)
         /\ Len(Pruned) = Len(requestTimes) - FirstLive + 1
         /\ \A i \in 1 .. Len(Pruned) : Pruned[i] = requestTimes[FirstLive + i - 1]
         /\ Len(Pruned) > 0 => Head(Pruned) = Pruned[1] /\ ~Expired(Pruned[1])
  <1> DEFINE n == Len(requestTimes)
  <1>0. n \in Nat /\ FirstLive \in 1 .. n + 1
    BY FirstLiveFacts DEF TypeOK
  <1>1. \A i \in FirstLive .. n : requestTimes[i] \in Nat
    <2>1. ASSUME NEW i \in FirstLive .. n PROVE requestTimes[i] \in Nat
      <3>1. i \in 1 .. Len(requestTimes)
        BY <1>0
      <3> QED BY <3>1, ElementOfSeq DEF TypeOK
    <2> QED BY <2>1
  <1>2. FirstLive \in Int /\ n \in Int
    BY <1>0
  <1>3. /\ Pruned \in Seq(Nat)
        /\ Len(Pruned) = IF FirstLive <= n THEN n - FirstLive + 1 ELSE 0
        /\ \A i \in 1 .. n - FirstLive + 1 : Pruned[i] = requestTimes[FirstLive + i - 1]
    <2> HIDE DEF n
    <2>1. Pruned = SubSeq(requestTimes, FirstLive, n)
      BY DEF Pruned, n
    <2> QED BY <1>1, <1>2, <2>1, SubSeqProperties
  <1>4. Len(Pruned) = n - FirstLive + 1
    BY <1>0, <1>3
  <1>5. ASSUME Len(Pruned) > 0 PROVE Head(Pruned) = Pruned[1] /\ ~Expired(Pruned[1])
    <2>1. FirstLive <= n /\ 1 \in 1 .. n - FirstLive + 1
      BY <1>0, <1>4, <1>5
    <2>2. Pruned[1] = requestTimes[FirstLive]
      BY <1>0, <1>3, <2>1
    <2>3. ~Expired(requestTimes[FirstLive])
      BY <2>1, FirstLiveFacts
    <2>4. Pruned # <<>>
      BY <1>3, <1>5
    <2> QED BY <1>3, <2>2, <2>3, <2>4
  <1> QED BY <1>3, <1>4, <1>5

LEMMA PrunedLength ==
  ASSUME TypeOK
  PROVE  /\ Len(requestTimes) \in Nat /\ FirstLive \in 1 .. Len(requestTimes) + 1
         /\ Len(Pruned) = Len(requestTimes) - FirstLive + 1
  <1>1. Len(requestTimes) \in Nat
    BY DEF TypeOK
  <1> QED BY <1>1, FirstLiveFacts, PrunedFacts

-----------------------------------------------------------------------------
(* Type correctness, and how long a caller sleeps. *)

LEMMA TypeNext == TypeOK /\ [Next]_vars => TypeOK'
  <1> SUFFICES ASSUME TypeOK, [Next]_vars PROVE TypeOK'
    OBVIOUS
  <1>0. /\ Pruned \in Seq(Nat) /\ system_clock \in Nat
        /\ Len(Pruned) > 0 => waitTime \in Int
        /\ MustWait => Len(Pruned) > 0
    BY PrunedFacts, ParameterAssumption DEF TypeOK, system_clock, waitTime, MustWait
  <1>1. ASSUME NEW t \in Threads, WaitReturns(t) PROVE TypeOK'
    BY <1>0, <1>1 DEF TypeOK, WaitReturns, Record
  <1>2. ASSUME NEW t \in Threads, WaitSleeps(t) PROVE TypeOK'
    <2>1. steady + waitTime \in Int
      BY <1>0, <1>2 DEF WaitSleeps, TypeOK
    <2> HIDE DEF waitTime
    <2> QED BY <1>0, <1>2, <2>1 DEF TypeOK, WaitSleeps
  <1>3. ASSUME NEW t \in Threads, WaitWakes(t) PROVE TypeOK'
    BY <1>3 DEF TypeOK, WaitWakes, Record
  <1>4. CASE Tick \/ UNCHANGED vars
    BY <1>4 DEF TypeOK, Tick, vars
  <1>5. CASE ClockSet
    <2>1. adjusted' = (adjusted \/ offset' # 0)
      BY <1>5 DEF ClockSet
    <2>2. adjusted' \in BOOLEAN
      BY <2>1, Zenon
    <2> QED BY <1>5, <2>2 DEF TypeOK, ClockSet
  <1> QED BY <1>1, <1>2, <1>3, <1>4, <1>5 DEF Next

LEMMA TypeInit == Init => TypeOK
  BY ParameterAssumption DEF Init, TypeOK

\* The deque, the stamps and the clocks keep their types.
THEOREM TypeCorrect == Spec => []TypeOK
  BY TypeInit, TypeNext, PTL DEF Spec

\* No stamp is further ahead of the steady clock than the system clock can be.
StampsBounded ==
    /\ \A i \in 1 .. Len(requestTimes) : requestTimes[i] <= steady + MaxOffset
    /\ \A t \in Threads : now[t] <= steady + MaxOffset

SleepInv == StampsBounded /\ SleepBounded

LEMMA PrunedBounded ==
  ASSUME TypeOK, StampsBounded
  PROVE  \A i \in 1 .. Len(Pruned) : Pruned[i] <= steady + MaxOffset
  <1>1. ASSUME NEW i \in 1 .. Len(Pruned) PROVE Pruned[i] <= steady + MaxOffset
    <2>1. FirstLive + i - 1 \in 1 .. Len(requestTimes)
      <3>1. Len(requestTimes) \in Nat /\ FirstLive \in 1 .. Len(requestTimes) + 1
        BY FirstLiveFacts DEF TypeOK
      <3>2. i \in 1 .. Len(requestTimes) - FirstLive + 1
        BY PrunedFacts
      <3> QED BY <3>1, <3>2
    <2> QED BY <2>1, PrunedFacts DEF StampsBounded
  <1> QED BY <1>1

\* Nobody sleeps longer than a window, the margin and what the clock was set back.
THEOREM SleepIsBounded == Spec => []SleepBounded
  <1>1. Init => SleepInv
    BY ParameterAssumption DEF Init, SleepInv, StampsBounded, SleepBounded
  <1>2. ASSUME TypeOK, SleepInv, [Next]_vars PROVE SleepInv'
    <2> USE <1>2, ParameterAssumption DEF TypeOK, SleepInv, StampsBounded, SleepBounded
    <2>0. /\ system_clock \in Nat /\ system_clock >= steady /\ system_clock <= steady + MaxOffset
          /\ Pruned \in Seq(Nat)
          /\ \A i \in 1 .. Len(Pruned) : Pruned[i] <= steady + MaxOffset
      BY PrunedBounded, PrunedFacts DEF system_clock
    <2>1. ASSUME NEW t \in Threads, WaitReturns(t) PROVE SleepInv'
      <3>1. /\ requestTimes' = Append(Pruned, system_clock)
            /\ now' = [now EXCEPT ![t] = system_clock]
            /\ UNCHANGED <<steady, pc, wakeAt>>
        BY <2>1 DEF WaitReturns, Record
      <3>2. ASSUME NEW i \in 1 .. Len(requestTimes')
            PROVE  requestTimes'[i] <= steady + MaxOffset
        <4>1. Len(Pruned) \in Nat /\ Len(requestTimes') = Len(Pruned) + 1
          BY <2>0, <3>1
        <4>2. requestTimes'[i] = IF i <= Len(Pruned) THEN Pruned[i] ELSE system_clock
          BY <2>0, <3>1, <4>1
        <4>3. i <= Len(Pruned) => i \in 1 .. Len(Pruned)
          BY <4>1
        <4> QED BY <2>0, <4>2, <4>3
      <3>3. SleepBounded'
        BY <3>1
      <3> QED BY <2>0, <3>1, <3>2, <3>3
    <2>2. ASSUME NEW t \in Threads, WaitSleeps(t) PROVE SleepInv'
      <3>1. Len(Pruned) > 0 /\ Head(Pruned) = Pruned[1]
        BY <2>0, <2>2, PrunedFacts DEF WaitSleeps, MustWait
      <3>2. Pruned[1] \in Nat /\ Pruned[1] <= steady + MaxOffset
        BY <2>0, <3>1
      <3>3. waitTime \in Int /\ waitTime <= windowSizeMs + Margin + MaxOffset
        BY <2>0, <3>1, <3>2 DEF waitTime
      <3>4. wakeAt'[t] <= steady' + windowSizeMs + Margin + MaxOffset
        BY <2>2, <3>3 DEF WaitSleeps
      <3>5. SleepBounded'
        BY <2>2, <3>4 DEF WaitSleeps
      <3> QED BY <2>0, <2>2, <3>5 DEF WaitSleeps
    <2>3. ASSUME NEW t \in Threads, WaitWakes(t) PROVE SleepInv'
      BY <2>3 DEF WaitWakes, Record
    <2>4. CASE Tick
      BY <2>4 DEF Tick
    <2>5. CASE ClockSet
      BY <2>5 DEF ClockSet
    <2>6. CASE UNCHANGED vars
      BY <2>6 DEF vars
    <2> QED BY <2>1, <2>2, <2>3, <2>4, <2>5, <2>6 DEF Next
  <1>3. SleepInv => SleepBounded
    BY DEF SleepInv
  <1> QED BY <1>1, <1>2, <1>3, TypeCorrect, PTL DEF Spec

-----------------------------------------------------------------------------
(* A single thread.                                                         *)

\* The deque holds the stamps of the last calls that returned.  A single thread
\* enters after its last call returned, so the stamp of a call lies between the
\* return before it and its own return; and what was pruned is out of the window.
Ages ==
    LET n == Len(released)
        q == Len(requestTimes)
    IN  /\ q <= n
        /\ \A i \in 1 .. n : released[i] <= steady
        /\ \A i \in 1 .. q :
              /\ requestTimes[i] <= released[n - q + i]
              /\ n - q + i > 1 => released[n - q + i - 1] <= requestTimes[i]
        /\ \A i \in 1 .. n : i < n - q => steady - released[i] >= windowSizeMs

\* A caller that sleeps has left localLimit stamps, the first of which will have
\* expired when it wakes; what it then adds is over the limit until the next call.
Waiting ==
    \A t \in Threads :
        /\ pc[t] = "sleeping" =>
              /\ Len(requestTimes) = localLimit
              /\ wakeAt[t] > requestTimes[1] + windowSizeMs
              /\ now[t] <= steady
              /\ Len(released) > 0 => released[Len(released)] <= now[t]
        /\ pc[t] = "idle" =>
              \/ Len(requestTimes) <= localLimit
              \/ /\ Len(requestTimes) = localLimit + 1
                 /\ steady > requestTimes[1] + windowSizeMs

SingleInv == Ages /\ Waiting /\ AtMostOneOver

\* Counting the calls in the window by the place of the first of them.
LEMMA CountWindow ==
  ASSUME NEW n \in Nat, NEW k \in Nat, NEW S \in SUBSET (1 .. n), \A i \in S : i > n - k
  PROVE  IsFiniteSet(S) /\ Cardinality(S) <= k
  <1>1. CASE k >= n
    <2>1. IsFiniteSet(1 .. n) /\ Cardinality(1 .. n) = n
      BY FS_Interval
    <2>2. IsFiniteSet(S) /\ Cardinality(S) <= n
      BY <2>1, FS_Subset
    <2>3. Cardinality(S) \in Nat
      BY <2>2, FS_CardinalityType
    <2> QED BY <1>1, <2>2, <2>3
  <1>2. CASE k < n
    <2>1. IsFiniteSet(n - k + 1 .. n) /\ Cardinality(n - k + 1 .. n) = k
      BY <1>2, FS_Interval
    <2>2. S \subseteq n - k + 1 .. n
      OBVIOUS
    <2> QED BY <2>1, <2>2, FS_Subset, FS_CardinalityType
  <1> QED BY <1>1, <1>2

\* Pruning keeps the bookkeeping, and leaves at most localLimit stamps.
LEMMA AgesPruned ==
  ASSUME TypeOK, Ages, offset = 0
  PROVE  LET n == Len(released)
             q == Len(Pruned)
         IN  /\ q <= n
             /\ \A i \in 1 .. q :
                   /\ Pruned[i] <= released[n - q + i]
                   /\ n - q + i > 1 => released[n - q + i - 1] <= Pruned[i]
             /\ \A i \in 1 .. n : i < n - q => steady - released[i] >= windowSizeMs
  <1> DEFINE n == Len(released)
             m == Len(requestTimes)
             q == Len(Pruned)
             d == FirstLive - 1
  <1>1. /\ n \in Nat /\ m \in Nat /\ d \in 0 .. m /\ q = m - d /\ q \in Nat
        /\ \A i \in 1 .. q : Pruned[i] = requestTimes[d + i]
    <2>0. n \in Nat
      BY DEF TypeOK
    <2>1. n \in Nat /\ m \in Nat /\ FirstLive \in 1 .. m + 1 /\ q = m - FirstLive + 1
      BY <2>0, PrunedLength
    <2>2. ASSUME NEW i \in 1 .. q PROVE Pruned[i] = requestTimes[d + i]
      <3>1. FirstLive + i - 1 = d + i
        BY <2>1
      <3>2. Pruned[i] = requestTimes[FirstLive + i - 1]
        BY PrunedFacts
      <3> QED BY <3>1, <3>2
    <2> QED BY <2>1, <2>2
  <1>2. \A i \in 1 .. d : steady - requestTimes[i] > windowSizeMs
    BY FirstLiveFacts DEF TypeOK, Expired, system_clock
  <1>3. /\ m <= n
        /\ \A i \in 1 .. m :
              /\ requestTimes[i] <= released[n - m + i]
              /\ n - m + i > 1 => released[n - m + i - 1] <= requestTimes[i]
        /\ \A i \in 1 .. n : i < n - m => steady - released[i] >= windowSizeMs
    BY DEF Ages
  <1>4. /\ \A i \in 1 .. n : released[i] \in Nat
        /\ \A i \in 1 .. m : requestTimes[i] \in Nat
        /\ steady \in Nat /\ windowSizeMs \in Nat
    BY ElementOfSeq, ParameterAssumption DEF TypeOK
  <1> HIDE DEF n, m, q, d
  <1>5. ASSUME NEW i \in 1 .. q
        PROVE  /\ Pruned[i] <= released[n - q + i]
               /\ n - q + i > 1 => released[n - q + i - 1] <= Pruned[i]
    <2>1. d + i \in 1 .. m /\ n - m + (d + i) = n - q + i /\ n - m + (d + i) - 1 = n - q + i - 1
      BY <1>1
    <2>2. Pruned[i] = requestTimes[d + i]
      BY <1>1
    <2> QED BY <1>3, <2>1, <2>2
  <1>6. ASSUME NEW i \in 1 .. n, i < n - q
        PROVE  steady - released[i] >= windowSizeMs
    <2>1. CASE i < n - m
      BY <1>3, <2>1
    <2>2. CASE i >= n - m
      <3> DEFINE j == i - (n - m) + 1
      <3>1. j \in 1 .. d /\ j \in 1 .. m /\ n - m + j > 1 /\ n - m + j - 1 = i
        BY <1>1, <1>3, <1>6, <2>2
      <3> HIDE DEF j
      <3>2. released[i] <= requestTimes[j] /\ steady - requestTimes[j] > windowSizeMs
        BY <1>2, <1>3, <3>1
      <3> QED BY <1>4, <3>1, <3>2
    <2> QED BY <1>1, <2>1, <2>2
  <1>7. q <= n
    BY <1>1, <1>3
  <1> QED BY <1>5, <1>6, <1>7 DEF n, q


\* Adding a stamp between the last return and now, and the return, keeps Ages.
LEMMA AgesAppend ==
  ASSUME NEW Q \in Seq(Nat), NEW R \in Seq(Nat), NEW s \in Nat, NEW c \in Nat, NEW w \in Nat,
         Len(Q) <= Len(R), s <= c, Len(R) > 0 => R[Len(R)] <= s,
         \A i \in 1 .. Len(R) : R[i] <= c,
         \A i \in 1 .. Len(Q) :
            /\ Q[i] <= R[Len(R) - Len(Q) + i]
            /\ Len(R) - Len(Q) + i > 1 => R[Len(R) - Len(Q) + i - 1] <= Q[i],
         \A i \in 1 .. Len(R) : i < Len(R) - Len(Q) => c - R[i] >= w
  PROVE  LET AQ == Append(Q, s)
             AR == Append(R, c)
         IN  /\ Len(AQ) = Len(Q) + 1 /\ Len(AR) = Len(R) + 1
             /\ \A i \in 1 .. Len(AR) : AR[i] <= c
             /\ \A i \in 1 .. Len(AQ) :
                   /\ AQ[i] <= AR[Len(AR) - Len(AQ) + i]
                   /\ Len(AR) - Len(AQ) + i > 1 => AR[Len(AR) - Len(AQ) + i - 1] <= AQ[i]
             /\ \A i \in 1 .. Len(AR) : i < Len(AR) - Len(AQ) => c - AR[i] >= w
  <1> DEFINE AQ == Append(Q, s)
             AR == Append(R, c)
             n == Len(R)
             q == Len(Q)
  <1>1. /\ n \in Nat /\ q \in Nat /\ Len(AQ) = q + 1 /\ Len(AR) = n + 1
        /\ \A i \in 1 .. q : AQ[i] = Q[i]
        /\ \A i \in 1 .. n : AR[i] = R[i]
        /\ AQ[q + 1] = s /\ AR[n + 1] = c
    BY AppendProperties
  <1>a. /\ q <= n /\ s <= c /\ (n > 0 => R[n] <= s)
        /\ \A i \in 1 .. n : R[i] <= c
        /\ \A i \in 1 .. q :
              /\ Q[i] <= R[n - q + i]
              /\ n - q + i > 1 => R[n - q + i - 1] <= Q[i]
        /\ \A i \in 1 .. n : i < n - q => c - R[i] >= w
    OBVIOUS
  <1> HIDE DEF AQ, AR, n, q
  <1>2. ASSUME NEW i \in 1 .. n + 1 PROVE AR[i] <= c
    <2>1. CASE i = n + 1
      BY <1>1, <2>1
    <2>2. CASE i \in 1 .. n
      BY <1>1, <1>a, <2>2
    <2> QED BY <1>1, <2>1, <2>2
  <1>3. ASSUME NEW i \in 1 .. q + 1
        PROVE  /\ AQ[i] <= AR[n - q + i]
               /\ n - q + i > 1 => AR[n - q + i - 1] <= AQ[i]
    <2>1. CASE i = q + 1
      <3>1. n - q + i = n + 1 /\ n - q + i - 1 = n
        BY <1>1, <2>1
      <3>2. AQ[i] <= AR[n - q + i]
        BY <1>1, <1>a, <2>1, <3>1
      <3>3. ASSUME n - q + i > 1 PROVE AR[n - q + i - 1] <= AQ[i]
        <4>1. n > 0 /\ n \in 1 .. n
          BY <1>1, <3>1, <3>3
        <4>2. AR[n] = R[n] /\ R[n] <= s
          BY <1>1, <1>a, <4>1
        <4> QED BY <1>1, <2>1, <3>1, <4>2
      <3> QED BY <3>2, <3>3
    <2>2. CASE i \in 1 .. q
      <3>1. n - q + i \in 1 .. n /\ (n - q + i > 1 => n - q + i - 1 \in 1 .. n)
        BY <1>1, <1>a, <2>2
      <3> QED BY <1>1, <1>a, <2>2, <3>1
    <2> QED BY <1>1, <2>1, <2>2
  <1>4. ASSUME NEW i \in 1 .. n + 1, i < n - q PROVE c - AR[i] >= w
    <2>1. i \in 1 .. n
      BY <1>1, <1>4
    <2>2. AR[i] = R[i] /\ c - R[i] >= w
      BY <1>1, <1>4, <1>a, <2>1
    <2> QED BY <2>2
  <1>5. Len(AR) - Len(AQ) = n - q
    BY <1>1
  <1> QED BY <1>1, <1>2, <1>3, <1>4, <1>5 DEF AQ, AR, n, q

LEMMA WindowFinite == TypeOK => IsFiniteSet(InWindow) /\ Cardinality(InWindow) \in Nat
  <1> SUFFICES ASSUME TypeOK PROVE IsFiniteSet(InWindow) /\ Cardinality(InWindow) \in Nat
    OBVIOUS
  <1>1. Len(released) \in Nat
    BY DEF TypeOK
  <1>2. IsFiniteSet(1 .. Len(released))
    BY <1>1, FS_Interval
  <1>3. InWindow \subseteq 1 .. Len(released)
    BY DEF InWindow
  <1>4. IsFiniteSet(InWindow)
    BY <1>2, <1>3, FS_Subset
  <1> QED BY <1>4, FS_CardinalityType

LEMMA SingleReturns ==
  ASSUME NEW thr, Threads = {thr}, offset = 0, TypeOK, SingleInv, WaitReturns(thr)
  PROVE  SingleInv'
  <1> DEFINE n == Len(released)
             q == Len(Pruned)
  <1>0. /\ n \in Nat /\ q \in Nat /\ steady \in Nat /\ system_clock = steady
        /\ Pruned \in Seq(Nat) /\ released \in Seq(Nat)
        /\ localLimit \in Nat /\ localLimit > 0 /\ windowSizeMs \in Nat /\ Margin \in Nat /\ Margin > 0
    BY PrunedFacts, ParameterAssumption DEF TypeOK, system_clock
  <1>1. q < localLimit
    <2>1. ASSUME q >= localLimit PROVE waitTime > 0
      <3>1. Head(Pruned) = Pruned[1] /\ ~Expired(Pruned[1]) /\ Pruned[1] \in Nat
        BY <1>0, <2>1, PrunedFacts
      <3> QED BY <1>0, <3>1 DEF waitTime, Expired
    <2> QED BY <1>0, <2>1 DEF WaitReturns, MustWait
  <1>2. /\ requestTimes' = Append(Pruned, steady) /\ released' = Append(released, steady)
        /\ UNCHANGED <<steady, pc>> /\ pc[thr] = "idle"
    BY <1>0 DEF WaitReturns, Record
  <1>3. /\ q <= n /\ \A i \in 1 .. n : released[i] <= steady
        /\ \A i \in 1 .. q :
              /\ Pruned[i] <= released[n - q + i]
              /\ n - q + i > 1 => released[n - q + i - 1] <= Pruned[i]
        /\ \A i \in 1 .. n : i < n - q => steady - released[i] >= windowSizeMs
    BY AgesPruned DEF SingleInv, Ages
  <1>4. n > 0 => released[n] <= steady
    BY <1>0, <1>3
  <1>5. Ages' /\ Len(requestTimes') = q + 1 /\ Len(released') = n + 1
    <2>1. /\ Len(Pruned) <= Len(released) /\ steady <= steady
          /\ Len(released) > 0 => released[Len(released)] <= steady
      BY <1>0, <1>3, <1>4
    <2>2. LET AQ == Append(Pruned, steady)
              AR == Append(released, steady)
          IN  /\ Len(AQ) = Len(Pruned) + 1 /\ Len(AR) = Len(released) + 1
              /\ \A i \in 1 .. Len(AR) : AR[i] <= steady
              /\ \A i \in 1 .. Len(AQ) :
                    /\ AQ[i] <= AR[Len(AR) - Len(AQ) + i]
                    /\ Len(AR) - Len(AQ) + i > 1 => AR[Len(AR) - Len(AQ) + i - 1] <= AQ[i]
              /\ \A i \in 1 .. Len(AR) : i < Len(AR) - Len(AQ) => steady - AR[i] >= windowSizeMs
      <3> HIDE DEF n, q
      <3> QED BY <1>0, <1>3, <2>1, AgesAppend DEF n, q
    <2>3. Len(requestTimes') <= Len(released')
      BY <1>2, <2>1, <2>2, <1>0
    <2> QED BY <1>2, <2>2, <2>3 DEF Ages
  <1>6. Waiting'
    BY <1>0, <1>1, <1>2, <1>5 DEF Waiting
  <1>7. AtMostOneOver'
    <2>1. \A i \in InWindow' : i > (n + 1) - (q + 2)
      <3>1. ASSUME NEW i \in InWindow', i <= n - q - 1 PROVE FALSE
        <4>1. i \in 1 .. n + 1 /\ steady' - released'[i] < windowSizeMs
          BY <1>5 DEF InWindow
        <4>2. i < Len(released') - Len(requestTimes')
          BY <1>0, <1>5, <3>1, <4>1
        <4>3. steady' - released'[i] >= windowSizeMs
          BY <1>5, <4>1, <4>2 DEF Ages
        <4>4. released'[i] \in Nat
          <5>1. Append(released, steady) \in Seq(Nat) /\ Len(Append(released, steady)) = n + 1
            BY <1>0, AppendProperties
          <5> QED BY <1>2, <4>1, <5>1, ElementOfSeq
        <4> QED BY <1>0, <1>2, <4>1, <4>3, <4>4
      <3>2. \A i \in InWindow' : i \in Nat
        BY <1>0, <1>5 DEF InWindow
      <3> QED BY <1>0, <3>1, <3>2
    <2>2. InWindow' \in SUBSET (1 .. n + 1)
      BY <1>5 DEF InWindow
    <2>3. Cardinality(InWindow') <= q + 2 /\ Cardinality(InWindow') \in Nat
      <3> HIDE DEF n, q
      <3>1. n + 1 \in Nat /\ q + 2 \in Nat
        BY <1>0
      <3>2. IsFiniteSet(InWindow') /\ Cardinality(InWindow') <= q + 2
        BY <2>1, <2>2, <3>1, CountWindow
      <3> QED BY <3>2, FS_CardinalityType
    <2> QED BY <1>0, <1>1, <2>3 DEF AtMostOneOver
  <1> QED BY <1>5, <1>6, <1>7 DEF SingleInv

LEMMA SingleSleeps ==
  ASSUME NEW thr, Threads = {thr}, offset = 0, TypeOK, SingleInv, WaitSleeps(thr)
  PROVE  SingleInv'
  <1> DEFINE n == Len(released)
             m == Len(requestTimes)
             q == Len(Pruned)
  <1>0. /\ n \in Nat /\ m \in Nat /\ q \in Nat /\ steady \in Nat /\ system_clock = steady
        /\ Pruned \in Seq(Nat) /\ released \in Seq(Nat)
        /\ localLimit \in Nat /\ localLimit > 0 /\ windowSizeMs \in Nat /\ Margin \in Nat /\ Margin > 0
    BY PrunedFacts, ParameterAssumption DEF TypeOK, system_clock
  <1>1. /\ pc[thr] = "idle" /\ pc'[thr] = "sleeping" /\ q >= localLimit
        /\ requestTimes' = Pruned /\ now'[thr] = steady
        /\ wakeAt'[thr] = steady + waitTime
        /\ UNCHANGED <<released, steady>>
    BY <1>0 DEF WaitSleeps, MustWait, TypeOK
  <1>2. /\ FirstLive \in 1 .. m + 1 /\ q = m - FirstLive + 1
        /\ FirstLive <= m => ~Expired(requestTimes[FirstLive])
    BY FirstLiveFacts, PrunedFacts
  <1>3. q = localLimit
    <2>1. CASE m <= localLimit
      BY <1>0, <1>1, <1>2, <2>1
    <2>2. CASE m = localLimit + 1 /\ steady > requestTimes[1] + windowSizeMs
      <3>1. requestTimes[1] \in Nat
        <4>1. 1 \in 1 .. Len(requestTimes)
          BY <1>0, <2>2
        <4> QED BY <4>1, ElementOfSeq DEF TypeOK
      <3>2. Expired(requestTimes[1])
        BY <1>0, <2>2, <3>1 DEF Expired
      <3>3. FirstLive # 1
        BY <1>0, <1>2, <2>2, <3>2
      <3> QED BY <1>0, <1>1, <1>2, <2>2, <3>3
    <2>3. m <= localLimit \/ (m = localLimit + 1 /\ steady > requestTimes[1] + windowSizeMs)
      BY <1>1 DEF SingleInv, Waiting
    <2> QED BY <2>1, <2>2, <2>3
  <1>4. Head(Pruned) = Pruned[1] /\ Pruned[1] \in Nat
    BY <1>0, <1>3, PrunedFacts
  <1>5. wakeAt'[thr] > requestTimes'[1] + windowSizeMs
    BY <1>0, <1>1, <1>4 DEF waitTime
  <1>6. Ages'
    BY <1>1, AgesPruned DEF Ages, SingleInv
  <1>7. n > 0 => released[n] <= steady
    BY <1>0 DEF SingleInv, Ages
  <1>8. Waiting'
    BY <1>0, <1>1, <1>3, <1>5, <1>7 DEF Waiting
  <1>9. AtMostOneOver'
    BY <1>1 DEF SingleInv, AtMostOneOver, InWindow
  <1> QED BY <1>6, <1>8, <1>9 DEF SingleInv

LEMMA SingleWakes ==
  ASSUME NEW thr, Threads = {thr}, offset = 0, TypeOK, SingleInv, WaitWakes(thr)
  PROVE  SingleInv'
  <1> DEFINE n == Len(released)
             m == Len(requestTimes)
  <1>0. /\ n \in Nat /\ m \in Nat /\ steady \in Nat /\ now[thr] \in Nat /\ wakeAt[thr] \in Int
        /\ requestTimes \in Seq(Nat) /\ released \in Seq(Nat)
        /\ localLimit \in Nat /\ localLimit > 0 /\ windowSizeMs \in Nat
    BY ParameterAssumption DEF TypeOK
  <1>1. /\ pc[thr] = "sleeping" /\ pc'[thr] = "idle" /\ steady >= wakeAt[thr]
        /\ requestTimes' = Append(requestTimes, now[thr]) /\ released' = Append(released, steady)
        /\ steady' = steady
    BY DEF WaitWakes, Record, TypeOK
  <1>2. /\ m = localLimit /\ wakeAt[thr] > requestTimes[1] + windowSizeMs
        /\ now[thr] <= steady /\ (n > 0 => released[n] <= now[thr])
    BY <1>1 DEF SingleInv, Waiting
  <1>3. /\ m <= n /\ \A i \in 1 .. n : released[i] <= steady
        /\ \A i \in 1 .. m :
              /\ requestTimes[i] <= released[n - m + i]
              /\ n - m + i > 1 => released[n - m + i - 1] <= requestTimes[i]
        /\ \A i \in 1 .. n : i < n - m => steady - released[i] >= windowSizeMs
    BY DEF SingleInv, Ages
  <1>4. LET AQ == Append(requestTimes, now[thr])
            AR == Append(released, steady)
        IN  /\ Len(AQ) = m + 1 /\ Len(AR) = n + 1
            /\ \A i \in 1 .. Len(AR) : AR[i] <= steady
            /\ \A i \in 1 .. Len(AQ) :
                  /\ AQ[i] <= AR[Len(AR) - Len(AQ) + i]
                  /\ Len(AR) - Len(AQ) + i > 1 => AR[Len(AR) - Len(AQ) + i - 1] <= AQ[i]
            /\ \A i \in 1 .. Len(AR) : i < Len(AR) - Len(AQ) => steady - AR[i] >= windowSizeMs
    <2> HIDE DEF n, m
    <2> QED BY <1>0, <1>2, <1>3, AgesAppend DEF n, m
  <1>5. /\ Ages' /\ Len(requestTimes') = m + 1 /\ Len(released') = n + 1
        /\ requestTimes'[1] = requestTimes[1] /\ requestTimes[1] \in Nat
        /\ \A i \in 1 .. n : released'[i] = released[i] /\ released[i] \in Nat
    <2>1. Len(requestTimes') <= Len(released')
      BY <1>0, <1>1, <1>3, <1>4
    <2>2. Ages'
      BY <1>1, <1>4, <2>1 DEF Ages
    <2>3. 1 \in 1 .. Len(requestTimes)
      BY <1>0, <1>2
    <2>4. requestTimes'[1] = requestTimes[1] /\ requestTimes[1] \in Nat
      BY <1>0, <1>1, <2>3, AppendProperties, ElementOfSeq
    <2>5. \A i \in 1 .. n : released'[i] = released[i] /\ released[i] \in Nat
      BY <1>0, <1>1, AppendProperties, ElementOfSeq
    <2> QED BY <1>1, <1>4, <2>2, <2>4, <2>5
  <1>6. Waiting'
    <2>1. steady' > requestTimes'[1] + windowSizeMs
      BY <1>0, <1>1, <1>2, <1>5
    <2> QED BY <1>0, <1>1, <1>2, <1>5, <2>1 DEF Waiting
  <1>7. AtMostOneOver'
    <2>1. \A i \in InWindow' : i > (n + 1) - (m + 1)
      <3>1. ASSUME NEW i \in InWindow', i <= n - m PROVE FALSE
        <4>1. i \in 1 .. n /\ steady - released[i] < windowSizeMs
          <5>1. i \in 1 .. Len(released') /\ steady' - released'[i] < windowSizeMs
            BY <3>1 DEF InWindow
          <5>2. i \in 1 .. n
            BY <1>0, <1>5, <3>1, <5>1
          <5> QED BY <1>1, <1>5, <5>1, <5>2
        <4>2. CASE i < n - m
          BY <1>3, <1>0, <1>5, <4>1, <4>2
        <4>3. CASE i = n - m
          <5>1. 1 \in 1 .. m /\ n - m + 1 > 1 /\ n - m + 1 - 1 = i
            BY <1>0, <1>2, <4>1, <4>3
          <5>2. released[i] <= requestTimes[1]
            BY <1>3, <5>1
          <5>3. steady > requestTimes[1] + windowSizeMs
            BY <1>0, <1>1, <1>2, <1>5
          <5>4. released[i] \in Nat /\ requestTimes[1] \in Nat
            BY <1>5, <4>1
          <5> QED BY <1>0, <4>1, <5>2, <5>3, <5>4
        <4> QED BY <1>0, <3>1, <4>1, <4>2, <4>3
      <3>2. \A i \in InWindow' : i \in Nat
        BY <1>0, <1>5 DEF InWindow
      <3> QED BY <1>0, <3>1, <3>2
    <2>2. InWindow' \in SUBSET (1 .. n + 1)
      BY <1>5 DEF InWindow
    <2>3. Cardinality(InWindow') <= m + 1
      <3> HIDE DEF n, m
      <3>1. n + 1 \in Nat /\ m + 1 \in Nat
        BY <1>0
      <3> QED BY <2>1, <2>2, <3>1, CountWindow
    <2> QED BY <1>2, <2>3 DEF AtMostOneOver
  <1> QED BY <1>5, <1>6, <1>7 DEF SingleInv

LEMMA SingleTick ==
  ASSUME NEW thr, Threads = {thr}, offset = 0, TypeOK, SingleInv, Tick
  PROVE  SingleInv'
  <1>0. /\ Len(released) \in Nat /\ Len(requestTimes) \in Nat /\ steady \in Nat
        /\ steady' = steady + 1
        /\ UNCHANGED <<requestTimes, pc, now, wakeAt, released>>
        /\ localLimit \in Nat /\ windowSizeMs \in Nat /\ now[thr] \in Nat
        /\ \A i \in 1 .. Len(released) : released[i] \in Nat
        /\ \A i \in 1 .. Len(requestTimes) : requestTimes[i] \in Nat
    BY ParameterAssumption, ElementOfSeq DEF TypeOK, Tick
  <1>1. Ages'
    BY <1>0 DEF SingleInv, Ages
  <1>2. Waiting'
    <2>1. Len(requestTimes) = localLimit + 1 => requestTimes[1] \in Nat
      BY <1>0
    <2> QED BY <1>0, <2>1 DEF SingleInv, Waiting
  <1>3. InWindow' \subseteq InWindow
    BY <1>0 DEF InWindow
  <1>4. Cardinality(InWindow') <= Cardinality(InWindow) /\ Cardinality(InWindow') \in Nat
    BY <1>3, WindowFinite, FS_Subset, FS_CardinalityType
  <1>5. AtMostOneOver'
    BY <1>0, <1>4, WindowFinite DEF SingleInv, AtMostOneOver
  <1> QED BY <1>1, <1>2, <1>5 DEF SingleInv

\* What is known while the system clock has been the steady one all along.
SteadyInv == ~adjusted => offset = 0 /\ SingleInv

LEMMA SingleSteady ==
  ASSUME NEW thr, Threads = {thr}
  PROVE  Spec => []SteadyInv
  <1>1. Init => SteadyInv
    <2> SUFFICES ASSUME Init PROVE SingleInv
      BY DEF SteadyInv, Init
    <2>1. Ages /\ Waiting
      BY ParameterAssumption DEF Init, Ages, Waiting
    <2>2. InWindow = {}
      BY DEF Init, InWindow
    <2> QED BY <2>1, <2>2, FS_EmptySet, ParameterAssumption DEF SingleInv, AtMostOneOver
  <1>2. ASSUME TypeOK, SteadyInv, [Next]_vars PROVE SteadyInv'
    <2> SUFFICES ASSUME ~adjusted' PROVE offset' = 0 /\ SingleInv'
      BY DEF SteadyInv
    <2>1. ~adjusted
      BY <1>2 DEF Next, WaitReturns, WaitSleeps, WaitWakes, Tick, ClockSet, vars, TypeOK
    <2>2. offset = 0 /\ SingleInv
      BY <1>2, <2>1 DEF SteadyInv
    <2>3. CASE WaitReturns(thr)
      BY <1>2, <2>2, <2>3, SingleReturns DEF WaitReturns
    <2>4. CASE WaitSleeps(thr)
      BY <1>2, <2>2, <2>4, SingleSleeps DEF WaitSleeps
    <2>5. CASE WaitWakes(thr)
      BY <1>2, <2>2, <2>5, SingleWakes DEF WaitWakes
    <2>6. CASE Tick
      BY <1>2, <2>2, <2>6, SingleTick DEF Tick
    <2>7. CASE ClockSet \/ UNCHANGED vars
      BY <2>2, <2>7 DEF ClockSet, vars, SingleInv, Ages, Waiting, AtMostOneOver, InWindow
    <2> QED BY <1>2, <2>3, <2>4, <2>5, <2>6, <2>7 DEF Next
  <1> QED BY <1>1, <1>2, TypeCorrect, PTL DEF Spec

\* A single thread exceeds the limit by at most one, as long as nobody sets the clock.
THEOREM SingleThreadOneOver ==
  ASSUME NEW thr, Threads = {thr}
  PROVE  Spec => []OneOverLimit
  <1>1. SteadyInv => OneOverLimit
    BY DEF SteadyInv, SingleInv, OneOverLimit
  <1> QED BY <1>1, SingleSteady, PTL

-----------------------------------------------------------------------------
(* The calls of the spot client.                                            *)

\* Whatever the calls do between, the limiter takes its own steps only.
LEMMA LimiterStep == [CallsNext]_calls => [Next]_vars
  <1> SUFFICES ASSUME [CallsNext]_calls PROVE [Next]_vars
    OBVIOUS
  <1>1. ASSUME NEW t \in Threads, Wait(t) PROVE Next
    BY <1>1 DEF Wait, Next
  <1>2. CASE (Tick \/ ClockSet) /\ UNCHANGED private
    BY <1>2 DEF Next
  <1>3. ASSUME NEW t \in Threads,
               \/ \E do \in Operation : Begin(t, do)
               \/ CreateRequest(t) \/ Write(t) \/ Returns(t) \/ Throws(t)
        PROVE  UNCHANGED vars
    BY <1>3 DEF Begin, CreateRequest, Write, Returns, Throws, Ends, limiter
  <1>4. ASSUME NEW t \in Threads, Performs(t) \/ Refuses(t) PROVE UNCHANGED vars
    BY <1>4 DEF Performs, Refuses, Answers, limiter
  <1>5. CASE (\E k \in ApiKeys : SetCredentials(k)) \/ StreamExpires \/ UNCHANGED calls
    BY <1>5 DEF SetCredentials, StreamExpires, calls, limiter
  <1> QED BY <1>1, <1>2, <1>3, <1>4, <1>5 DEF CallsNext

\* The calls implement the limiter, so that its theorems hold of them: no call
\* sleeps longer than SleepBounded says, and OneOverLimit holds of a single thread.
THEOREM CallsKeepLimiter == CallsSpec => Spec
  <1>1. CallsInit => Init
    BY DEF CallsInit
  <1> QED BY <1>1, LimiterStep, PTL DEF CallsSpec, Spec

\* A call that goes on has an answer, and one that says "ok" is to what was done.
Answered ==
    \A t \in Threads : At(t, "answered") =>
        answer[t] \in Answer /\ (answer[t].status = "ok" => answer[t].did # Null)

LEMMA CallsTypeNext == CallsTypeOK /\ Answered /\ [CallsNext]_calls => CallsTypeOK'
  <1> SUFFICES ASSUME CallsTypeOK, Answered, [CallsNext]_calls PROVE CallsTypeOK'
    OBVIOUS
  <1>0. TypeOK /\ TypeOK'
    BY LimiterStep, TypeNext DEF CallsTypeOK
  <1>s. steady \in Nat /\ system_clock \in Nat
    BY <1>0, ParameterAssumption DEF TypeOK, system_clock
  <1>1. ASSUME NEW t \in Threads, NEW do \in Operation, Begin(t, do) PROVE CallsTypeOK'
    BY <1>0, <1>1 DEF Begin, CallsTypeOK, Call
  <1>2. ASSUME NEW t \in Threads, Wait(t) PROVE CallsTypeOK'
    BY <1>0, <1>2 DEF Wait, At, CallsTypeOK, Call
  <1>3. ASSUME NEW t \in Threads, CreateRequest(t) PROVE CallsTypeOK'
    <2>1. call' \in [Threads -> Call \cup {Null}]
      BY <1>3 DEF CreateRequest, At, CallsTypeOK, Call
    <2>2. [key |-> call[t].do.key, timestamp |-> Null] \in Parameters
      BY <1>3 DEF CreateRequest, At, CallsTypeOK, Call, Operation, Parameters
    <2>3. \A parameters \in Parameters :
             Sign(parameters) \in [apiKey : ApiKeys \cup {Null}, parameters : Parameters,
                                   signature : [secret : ApiKeys, over : Parameters] \cup {Null}]
      BY <1>s DEF Sign, CallsTypeOK, Parameters
    <2> QED BY <1>0, <1>3, <2>1, <2>2, <2>3 DEF CreateRequest, CallsTypeOK
  <1>4. ASSUME NEW t \in Threads, Write(t) PROVE CallsTypeOK'
    BY <1>0, <1>s, <1>4 DEF Write, At, CallsTypeOK, Call
  <1>5. ASSUME NEW t \in Threads, Returns(t) PROVE CallsTypeOK'
    <2>1. call[t] \in Call /\ answer[t].did \in Done /\ call[t].do \in Operation
      <3>1. call[t] \in Call
        BY <1>5 DEF Returns, At, CallsTypeOK
      <3>2. answer[t].did \in Done
        BY <1>5 DEF Returns, Answered, Answer
      <3> QED BY <3>1, <3>2 DEF Call
    <2> QED BY <1>0, <1>5, <2>1 DEF Returns, Ends, CallsTypeOK
  <1>6. ASSUME NEW t \in Threads, Throws(t) PROVE CallsTypeOK'
    BY <1>0, <1>6 DEF Throws, Ends, CallsTypeOK
  <1>7. ASSUME NEW t \in Threads, NEW status \in {"ok", "code", "bad"}, NEW did \in Done,
               NEW open \in SUBSET ListenKeys, Answers(t, status, did, open)
        PROVE  CallsTypeOK'
    <2>1. call' \in [Threads -> Call \cup {Null}]
      BY <1>7 DEF Answers, At, CallsTypeOK, Call
    <2>2. answer' \in [Threads -> Answer \cup {Null}]
      BY <1>7 DEF Answers, CallsTypeOK, Answer
    <2> QED BY <1>0, <1>7, <2>1, <2>2 DEF Answers, CallsTypeOK
  <1>8. ASSUME NEW t \in Threads, Performs(t) PROVE CallsTypeOK'
    <2>1. call[t].do \in Operation /\ streams \in SUBSET ListenKeys
      BY <1>8 DEF Performs, At, CallsTypeOK, Call
    <2>2. call[t].do \in Done
      BY <2>1 DEF Done
    <2>3. \A k \in ListenKeys : [op |-> "post", key |-> k] \in Done
      BY DEF Done, Opened
    <2>4. \A k \in ListenKeys : /\ streams \cup {k} \in SUBSET ListenKeys
                             /\ streams \ {k} \in SUBSET ListenKeys
      BY <2>1
    <2>5. call[t].do.op = "delete" /\ call[t].do.key \in streams => call[t].do.key \in ListenKeys
      BY <2>1
    <2> QED BY <1>7, <1>8, <2>1, <2>2, <2>3, <2>4, <2>5 DEF Performs
  <1>9. ASSUME NEW t \in Threads, Refuses(t) PROVE CallsTypeOK'
    <2>1. Null \in Done /\ streams \in SUBSET ListenKeys
      BY DEF CallsTypeOK, Done
    <2>2. PICK status \in {"code", "bad"} : Answers(t, status, Null, streams)
      BY <1>9 DEF Refuses
    <2>3. status \in {"ok", "code", "bad"}
      OBVIOUS
    <2> HIDE <1>9
    <2> QED BY <1>7, <2>1, <2>2, <2>3
  <1>10. ASSUME NEW k \in ApiKeys, SetCredentials(k) PROVE CallsTypeOK'
    BY <1>0, <1>10 DEF SetCredentials, CallsTypeOK
  <1>11. CASE StreamExpires
    BY <1>0, <1>11 DEF StreamExpires, CallsTypeOK
  <1>12. CASE UNCHANGED private
    BY <1>0, <1>12 DEF private, CallsTypeOK
  <1>13. UNCHANGED calls => UNCHANGED private
    BY DEF calls
  <1> QED BY <1>1, <1>2, <1>3, <1>4, <1>5, <1>6, <1>8, <1>9, <1>10, <1>11, <1>12, <1>13
          DEF CallsNext

LEMMA AnsweredNext == CallsTypeOK /\ Answered /\ [CallsNext]_calls => Answered'
  <1> SUFFICES ASSUME CallsTypeOK, Answered, [CallsNext]_calls PROVE Answered'
    OBVIOUS
  <1> USE DEF Answered, At
  <1>0. call \in [Threads -> Call \cup {Null}] /\ answer \in [Threads -> Answer \cup {Null}]
    BY DEF CallsTypeOK
  <1>1. ASSUME NEW t \in Threads, NEW do \in Operation, Begin(t, do) PROVE Answered'
    BY <1>0, <1>1 DEF Begin
  <1>2. ASSUME NEW t \in Threads, NEW stage \in {"create", "connect", "read"},
               call[t] # Null, answer' = answer,
               call' = [call EXCEPT ![t].stage = stage] \/ call' = call
        PROVE  Answered'
    BY <1>0, <1>2 DEF Call
  <1>w. ASSUME NEW t \in Threads, Wait(t) \/ CreateRequest(t) \/ Write(t) PROVE Answered'
    <2>1. CASE Wait(t)
      <3>1. /\ call[t] # Null /\ answer' = answer
            /\ (call' = [call EXCEPT ![t].stage = "create"] \/ call' = call)
        BY <2>1 DEF Wait
      <3> QED BY <1>2, <3>1
    <2>2. CASE CreateRequest(t)
      BY <1>2, <2>2 DEF CreateRequest
    <2>3. CASE Write(t)
      BY <1>2, <2>3 DEF Write
    <2> QED BY <1>w, <2>1, <2>2, <2>3
  <1>3. ASSUME NEW t \in Threads, Returns(t) \/ Throws(t) PROVE Answered'
    BY <1>0, <1>3 DEF Returns, Throws, Ends
  <1>4. ASSUME NEW t \in Threads, NEW status \in {"ok", "code", "bad"}, NEW did \in Done,
               NEW open, status = "ok" => did # Null, Answers(t, status, did, open)
        PROVE  Answered'
    <2>1. [status |-> status, did |-> did] \in Answer
      BY DEF Answer
    <2> QED BY <1>0, <1>4, <2>1 DEF Answers
  <1>5. ASSUME NEW t \in Threads, Performs(t) PROVE Answered'
    <2>1. call[t].do \in Operation
      BY <1>0, <1>5 DEF Performs, Call
    <2>2. call[t].do \in Done /\ call[t].do # Null
      BY <2>1, NullAssumption DEF Done
    <2>3. \A k \in ListenKeys : [op |-> "post", key |-> k] \in Done
                             /\ [op |-> "post", key |-> k] # Null
      BY NullAssumption DEF Done, Opened
    <2> QED BY <1>4, <1>5, <2>2, <2>3 DEF Performs
  <1>6. ASSUME NEW t \in Threads, Refuses(t) PROVE Answered'
    BY <1>4, <1>6 DEF Refuses, Done
  <1>7. CASE (\E k \in ApiKeys : SetCredentials(k)) \/ StreamExpires \/ UNCHANGED private
    BY <1>7 DEF SetCredentials, StreamExpires, private
  <1>8. UNCHANGED calls => UNCHANGED private
    BY DEF calls
  <1> QED BY <1>1, <1>w, <1>3, <1>5, <1>6, <1>7, <1>8 DEF CallsNext

LEMMA CallsInductive == CallsSpec => [](CallsTypeOK /\ Answered)
  <1>1. CallsInit => CallsTypeOK /\ Answered
    BY TypeInit DEF CallsInit, CallsTypeOK, Answered, At
  <1> QED BY <1>1, CallsTypeNext, AnsweredNext, PTL DEF CallsSpec

\* The calls, their requests, the answers and the exchange's streams keep their types.
THEOREM CallsTypeCorrect == CallsSpec => []CallsTypeOK
  BY CallsInductive, PTL

\* A call for a user data stream returns only if what it asked for was done.
THEOREM ReturnedWasDone == CallsSpec => []ReturnsWhatWasDone
  <1>1. CallsInit => ReturnsWhatWasDone
    BY DEF CallsInit, ReturnsWhatWasDone
  <1>2. ASSUME CallsTypeOK, Answered, ReturnsWhatWasDone, [CallsNext]_calls
        PROVE  ReturnsWhatWasDone'
    <2> USE <1>2 DEF ReturnsWhatWasDone
    <2>0. returned \in [Threads -> [do : Operation, did : Done] \cup {Null}]
      BY DEF CallsTypeOK
    <2>1. ASSUME NEW t \in Threads, Returns(t) PROVE ReturnsWhatWasDone'
      <3>1. /\ returned' = [returned EXCEPT ![t] = [do |-> call[t].do, did |-> answer[t].did]]
            /\ At(t, "answered") /\ Passes(t)
        BY <2>1 DEF Returns
      <3>2. /\ answer[t].status \in {"ok", "code", "bad"}
            /\ answer[t].status = "ok" => answer[t].did # Null
        BY <3>1 DEF Answered, Answer
      <3>3. call[t].do.op # "public" => answer[t].did # Null
        BY <3>1, <3>2 DEF Passes
      <3> QED BY <2>0, <3>1, <3>3
    <2>2. ASSUME NEW t \in Threads, NEW do \in Operation, Begin(t, do) PROVE ReturnsWhatWasDone'
      BY <2>0, <2>2 DEF Begin
    <2>3. ASSUME NEW t \in Threads, Wait(t) \/ CreateRequest(t) \/ Write(t) \/ Throws(t)
          PROVE  UNCHANGED returned
      BY <2>3 DEF Wait, CreateRequest, Write, Throws
    <2>4. ASSUME NEW t \in Threads, Performs(t) \/ Refuses(t) PROVE UNCHANGED returned
      BY <2>4 DEF Performs, Refuses, Answers
    <2>5. CASE (\E k \in ApiKeys : SetCredentials(k)) \/ StreamExpires \/ UNCHANGED private
      BY <2>5 DEF SetCredentials, StreamExpires, private
    <2>6. UNCHANGED calls => UNCHANGED private
      BY DEF calls
    <2> QED BY <2>1, <2>2, <2>3, <2>4, <2>5, <2>6 DEF CallsNext
  <1> QED BY <1>1, <1>2, CallsInductive, PTL DEF CallsSpec

-----------------------------------------------------------------------------
(* A single thread, seen from the exchange.                                 *)

\* A request that was released and may still arrive.
Due(t) == IF At(t, "create") \/ At(t, "connect") THEN 1 ELSE 0

\* The calls from the i-th stamp of Q on are Len(Q) - i + 1, of which `due' have
\* not arrived: the arrivals A before theirs came before that stamp was taken.
Before(Q, A, due) ==
    \A i \in 1 .. Len(Q) : \A j \in 1 .. Len(A) :
        j <= Len(A) - (Len(Q) - i + 1 - due) => A[j] <= Q[i]

\* The last call that was pruned may have arrived after its stamp had expired, the
\* ones before it are out of the window.
Gone(Q, A, due) ==
    \A j \in 1 .. Len(A) :
        j <= Len(A) - (Len(Q) + 1 - due) => steady - A[j] >= windowSizeMs

Arrivals(t) ==
    /\ \A j \in 1 .. Len(arrived) : arrived[j] <= steady
    /\ Before(requestTimes, arrived, Due(t))
    /\ Gone(requestTimes, arrived, Due(t))
    /\ pc[t] = "sleeping" =>
          At(t, "wait") /\ \A j \in 1 .. Len(arrived) : arrived[j] <= now[t]

LEMMA ArrivalsPruned ==
  ASSUME TypeOK, offset = 0, arrived \in Seq(Nat),
         Before(requestTimes, arrived, 0), Gone(requestTimes, arrived, 0)
  PROVE  Before(Pruned, arrived, 0) /\ Gone(Pruned, arrived, 0)
  <1> DEFINE p == Len(arrived)
             m == Len(requestTimes)
             q == Len(Pruned)
             d == FirstLive - 1
  <1>1. /\ p \in Nat /\ m \in Nat /\ d \in 0 .. m /\ q = m - d /\ q \in Nat
        /\ FirstLive \in Int
    <2>1. p \in Nat /\ m \in Nat /\ FirstLive \in 1 .. m + 1 /\ q = m - FirstLive + 1
      BY PrunedLength
    <2> QED BY <2>1
  <1>2. \A i \in 1 .. q : Pruned[i] = requestTimes[d + i]
    <2>1. ASSUME NEW i \in 1 .. q PROVE Pruned[i] = requestTimes[d + i]
      <3>1. FirstLive + i - 1 = d + i
        BY <1>1
      <3> QED BY <3>1, PrunedFacts
    <2> QED BY <2>1
  <1>3. \A i \in 1 .. d : steady - requestTimes[i] > windowSizeMs
    BY FirstLiveFacts DEF TypeOK, Expired, system_clock
  <1>4. /\ \A i \in 1 .. m : \A j \in 1 .. p :
              j <= p - (m - i + 1) => arrived[j] <= requestTimes[i]
        /\ \A j \in 1 .. p : j <= p - (m + 1) => steady - arrived[j] >= windowSizeMs
    BY DEF Before, Gone
  <1>5. /\ \A j \in 1 .. p : arrived[j] \in Nat
        /\ \A i \in 1 .. m : requestTimes[i] \in Nat
        /\ steady \in Nat /\ windowSizeMs \in Nat
    BY ElementOfSeq, ParameterAssumption DEF TypeOK
  <1> HIDE DEF p, m, q, d
  <1>6. ASSUME NEW i \in 1 .. q, NEW j \in 1 .. p, j <= p - (q - i + 1 - 0)
        PROVE  arrived[j] <= Pruned[i]
    <2>1. d + i \in 1 .. m /\ j <= p - (m - (d + i) + 1)
      BY <1>1, <1>6
    <2> QED BY <1>2, <1>4, <2>1
  <1>7. ASSUME NEW j \in 1 .. p, j <= p - (q + 1 - 0)
        PROVE  steady - arrived[j] >= windowSizeMs
    <2>1. CASE d = 0
      BY <1>1, <1>4, <1>7, <2>1
    <2>2. CASE d > 0
      <3>1. d \in 1 .. m /\ d \in 1 .. d /\ j <= p - (m - d + 1)
        BY <1>1, <1>7, <2>2
      <3>2. arrived[j] <= requestTimes[d] /\ steady - requestTimes[d] > windowSizeMs
        BY <1>3, <1>4, <3>1
      <3> QED BY <1>5, <3>1, <3>2
    <2> QED BY <1>1, <2>1, <2>2
  <1> QED BY <1>6, <1>7 DEF Before, Gone, p, q

\* A stamp taken after all arrivals goes in, and a request is due.
LEMMA ArrivalsRecord ==
  ASSUME NEW Q \in Seq(Nat), NEW s \in Nat, arrived \in Seq(Nat),
         \A j \in 1 .. Len(arrived) : arrived[j] <= s,
         Before(Q, arrived, 0), Gone(Q, arrived, 0)
  PROVE  Before(Append(Q, s), arrived, 1) /\ Gone(Append(Q, s), arrived, 1)
  <1> DEFINE p == Len(arrived)
             q == Len(Q)
             R == Append(Q, s)
  <1>1. /\ p \in Nat /\ q \in Nat /\ Len(R) = q + 1 /\ R[q + 1] = s
        /\ \A i \in 1 .. q : R[i] = Q[i]
    BY AppendProperties
  <1>2. /\ \A j \in 1 .. p : arrived[j] <= s
        /\ \A i \in 1 .. q : \A j \in 1 .. p : j <= p - (q - i + 1 - 0) => arrived[j] <= Q[i]
        /\ \A j \in 1 .. p : j <= p - (q + 1 - 0) => steady - arrived[j] >= windowSizeMs
    BY DEF Before, Gone
  <1> HIDE DEF p, q, R
  <1>3. ASSUME NEW i \in 1 .. q + 1, NEW j \in 1 .. p, j <= p - (q + 1 - i + 1 - 1)
        PROVE  arrived[j] <= R[i]
    <2>1. CASE i = q + 1
      BY <1>1, <1>2, <2>1
    <2>2. CASE i \in 1 .. q
      <3>1. j <= p - (q - i + 1 - 0)
        BY <1>1, <1>3, <2>2
      <3> QED BY <1>1, <1>2, <2>2, <3>1
    <2> QED BY <1>1, <2>1, <2>2
  <1>4. ASSUME NEW j \in 1 .. p, j <= p - (q + 1 + 1 - 1)
        PROVE  steady - arrived[j] >= windowSizeMs
    <2>1. j <= p - (q + 1 - 0)
      BY <1>1, <1>4
    <2> QED BY <1>2, <2>1
  <1>5. Before(R, arrived, 1)
    BY <1>1, <1>3 DEF Before, p
  <1>6. Gone(R, arrived, 1)
    BY <1>1, <1>4 DEF Gone, p
  <1> QED BY <1>5, <1>6 DEF R

LEMMA StageChanges ==
  ASSUME NEW t \in Threads, call \in [Threads -> Call \cup {Null}],
         NEW stage \in {"create", "connect", "read", "answered"},
         call[t] # Null, call' = [call EXCEPT ![t].stage = stage]
  PROVE  call'[t] # Null /\ call'[t].stage = stage
  <1>1. call'[t] = [call[t] EXCEPT !.stage = stage] /\ call[t] \in Call
    OBVIOUS
  <1>2. call'[t] \in Call /\ call'[t].stage = stage
    BY <1>1 DEF Call
  <1> QED BY <1>2, NullAssumption

LEMMA ArrivalsStep ==
  ASSUME NEW thr, Threads = {thr}, CallsTypeOK, TypeOK', offset = 0, Arrivals(thr),
         [CallsNext]_calls
  PROVE  Arrivals(thr)'
  <1>0. /\ call \in [Threads -> Call \cup {Null}] /\ pc \in [Threads -> {"idle", "sleeping"}]
        /\ now \in [Threads -> Nat] /\ thr \in Threads
        /\ steady \in Nat /\ system_clock = steady /\ TypeOK /\ arrived \in Seq(Nat)
        /\ requestTimes \in Seq(Nat) /\ Pruned \in Seq(Nat) /\ windowSizeMs \in Nat
        /\ \A j \in 1 .. Len(arrived) : arrived[j] \in Nat
        /\ Len(arrived) \in Nat /\ Len(requestTimes) \in Nat
    <2>1. TypeOK /\ call \in [Threads -> Call \cup {Null}] /\ arrived \in Seq(Nat)
      BY DEF CallsTypeOK
    <2>2. /\ pc \in [Threads -> {"idle", "sleeping"}] /\ now \in [Threads -> Nat]
          /\ steady \in Nat /\ requestTimes \in Seq(Nat)
      BY <2>1 DEF TypeOK
    <2>3. Pruned \in Seq(Nat)
      BY <2>1, PrunedFacts
    <2>4. /\ thr \in Threads /\ windowSizeMs \in Nat /\ system_clock = steady
      BY <2>2, ParameterAssumption DEF system_clock
    <2>5. /\ \A j \in 1 .. Len(arrived) : arrived[j] \in Nat
          /\ Len(arrived) \in Nat /\ Len(requestTimes) \in Nat
      BY <2>1, <2>2, ElementOfSeq
    <2> QED BY <2>1, <2>2, <2>3, <2>4, <2>5
  <1>d. /\ Due(thr) \in {0, 1} /\ Due(thr)' \in {0, 1}
        /\ call[thr] # Null => call[thr] \in Call
    BY <1>0 DEF Due
  <1>c. ASSUME NEW stage \in {"create", "connect", "read", "answered"},
               call[thr] # Null, call' = [call EXCEPT ![thr].stage = stage]
        PROVE  call'[thr] # Null /\ call'[thr].stage = stage
    BY <1>0, <1>c, StageChanges
  \* Steps that neither record nor let arrive.
  <1>q. ASSUME UNCHANGED <<requestTimes, arrived, pc, now>>, steady' \in {steady, steady + 1},
               Due(thr)' <= Due(thr), pc[thr] = "sleeping" => At(thr, "wait")'
        PROVE  Arrivals(thr)'
    <2> DEFINE p == Len(arrived)
               m == Len(requestTimes)
    <2>1. /\ \A i \in 1 .. m : \A j \in 1 .. p :
                j <= p - (m - i + 1 - Due(thr)) => arrived[j] <= requestTimes[i]
          /\ \A j \in 1 .. p : j <= p - (m + 1 - Due(thr)) => steady - arrived[j] >= windowSizeMs
      BY DEF Arrivals, Before, Gone
    <2>2. p \in Nat /\ m \in Nat
      BY <1>0
    <2> HIDE DEF p, m
    <2>3. ASSUME NEW i \in 1 .. m, NEW j \in 1 .. p, j <= p - (m - i + 1 - Due(thr)')
          PROVE  arrived[j] <= requestTimes[i]
      <3>1. j <= p - (m - i + 1 - Due(thr))
        BY <1>d, <1>q, <2>2, <2>3
      <3> QED BY <2>1, <3>1
    <2>4. ASSUME NEW j \in 1 .. p, j <= p - (m + 1 - Due(thr)')
          PROVE  steady' - arrived[j] >= windowSizeMs
      <3>1. j <= p - (m + 1 - Due(thr))
        BY <1>d, <1>q, <2>2, <2>4
      <3>2. arrived[j] \in Nat /\ steady - arrived[j] >= windowSizeMs
        BY <1>0, <2>1, <3>1 DEF p
      <3> QED BY <1>0, <1>q, <3>2
    <2>5. Before(requestTimes, arrived, Due(thr))'
      BY <1>q, <2>3 DEF Before, p, m
    <2>6. Gone(requestTimes, arrived, Due(thr))'
      BY <1>q, <2>4 DEF Gone, p, m
    <2>7. \A j \in 1 .. Len(arrived) : arrived[j] <= steady'
      BY <1>0, <1>q DEF Arrivals
    <2> QED BY <1>q, <2>5, <2>6, <2>7 DEF Arrivals
  \* A call that returns from wait() is due.
  <1>r. ASSUME At(thr, "wait"), call' = [call EXCEPT ![thr].stage = "create"]
        PROVE  Due(thr) = 0 /\ Due(thr)' = 1
    BY <1>c, <1>r DEF Due, At
  <1>1. ASSUME At(thr, "wait"), WaitReturns(thr), arrived' = arrived,
               call' = [call EXCEPT ![thr].stage = "create"]
        PROVE  Arrivals(thr)'
    <2>1. Before(Pruned, arrived, 0) /\ Gone(Pruned, arrived, 0)
      BY <1>0, <1>1, <1>r, ArrivalsPruned DEF Arrivals
    <2>2. /\ Before(Append(Pruned, steady), arrived, 1)
          /\ Gone(Append(Pruned, steady), arrived, 1)
      BY <1>0, <2>1, ArrivalsRecord DEF Arrivals
    <2>3. /\ requestTimes' = Append(Pruned, steady) /\ steady' = steady
          /\ pc' = pc /\ pc[thr] = "idle"
      BY <1>0, <1>1 DEF WaitReturns, Record
    <2>4. Before(requestTimes, arrived, Due(thr))' /\ Gone(requestTimes, arrived, Due(thr))'
      BY <1>1, <1>r, <2>2, <2>3 DEF Before, Gone
    <2> QED BY <1>1, <2>3, <2>4 DEF Arrivals
  <1>2. ASSUME At(thr, "wait"), WaitWakes(thr), arrived' = arrived,
               call' = [call EXCEPT ![thr].stage = "create"]
        PROVE  Arrivals(thr)'
    <2>1. pc[thr] = "sleeping" /\ now[thr] \in Nat
      BY <1>0, <1>2 DEF WaitWakes
    <2>2. /\ Before(Append(requestTimes, now[thr]), arrived, 1)
          /\ Gone(Append(requestTimes, now[thr]), arrived, 1)
      BY <1>0, <1>2, <1>r, <2>1, ArrivalsRecord DEF Arrivals
    <2>3. /\ requestTimes' = Append(requestTimes, now[thr]) /\ steady' = steady
          /\ pc'[thr] = "idle"
      BY <1>0, <1>2 DEF WaitWakes, Record
    <2>4. Before(requestTimes, arrived, Due(thr))' /\ Gone(requestTimes, arrived, Due(thr))'
      BY <1>2, <1>r, <2>2, <2>3 DEF Before, Gone
    <2> QED BY <1>2, <2>3, <2>4 DEF Arrivals
  <1>3. ASSUME At(thr, "wait"), WaitSleeps(thr), arrived' = arrived, call' = call
        PROVE  Arrivals(thr)'
    <2>1. Due(thr) = 0 /\ Due(thr)' = 0 /\ At(thr, "wait")'
      BY <1>3 DEF Due, At
    <2>2. Before(Pruned, arrived, 0) /\ Gone(Pruned, arrived, 0)
      BY <1>0, <2>1, ArrivalsPruned DEF Arrivals
    <2>3. requestTimes' = Pruned /\ steady' = steady /\ now'[thr] = steady
      BY <1>0, <1>3 DEF WaitSleeps
    <2>4. Before(requestTimes, arrived, Due(thr))' /\ Gone(requestTimes, arrived, Due(thr))'
      BY <1>3, <2>1, <2>2, <2>3 DEF Before, Gone
    <2> QED BY <1>3, <2>1, <2>3, <2>4 DEF Arrivals
  <1>4. ASSUME Wait(thr) PROVE Arrivals(thr)'
    BY <1>1, <1>2, <1>3, <1>4 DEF Wait
  <1>5. ASSUME Write(thr) PROVE Arrivals(thr)'
    <2> DEFINE p == Len(arrived)
               m == Len(requestTimes)
    <2>0. At(thr, "connect") /\ arrived' = Append(arrived, steady)
          /\ UNCHANGED <<requestTimes, pc, now, steady>>
      BY <1>5 DEF Write, limiter, vars
    <2>1. Due(thr) = 1 /\ Due(thr)' = 0 /\ pc[thr] # "sleeping"
      BY <1>0, <1>5, <1>c DEF Write, Due, At, Arrivals
    <2>2. /\ p \in Nat /\ m \in Nat /\ Len(arrived') = p + 1 /\ arrived'[p + 1] = steady
          /\ \A j \in 1 .. p : arrived'[j] = arrived[j]
      BY <1>0, <2>0, AppendProperties
    <2>3. /\ \A i \in 1 .. m : \A j \in 1 .. p :
                j <= p - (m - i + 1 - 1) => arrived[j] <= requestTimes[i]
          /\ \A j \in 1 .. p : j <= p - (m + 1 - 1) => steady - arrived[j] >= windowSizeMs
          /\ \A j \in 1 .. p : arrived[j] <= steady
      BY <2>1 DEF Arrivals, Before, Gone
    <2> HIDE DEF p, m
    <2>4. ASSUME NEW i \in 1 .. m, NEW j \in 1 .. p + 1, j <= p + 1 - (m - i + 1 - 0)
          PROVE  arrived'[j] <= requestTimes[i]
      <3>1. j \in 1 .. p /\ j <= p - (m - i + 1 - 1)
        BY <2>2, <2>4
      <3> QED BY <2>2, <2>3, <3>1
    <2>5. ASSUME NEW j \in 1 .. p + 1, j <= p + 1 - (m + 1 - 0)
          PROVE  steady - arrived'[j] >= windowSizeMs
      <3>1. j <= p - (m + 1 - 1)
        BY <2>2, <2>5
      <3>2. j \in 1 .. p
        BY <2>2, <3>1
      <3> QED BY <2>2, <2>3, <3>1, <3>2
    <2>6. ASSUME NEW j \in 1 .. p + 1 PROVE arrived'[j] <= steady
      <3>1. CASE j = p + 1
        BY <1>0, <2>2, <3>1
      <3>2. CASE j \in 1 .. p
        BY <2>2, <2>3, <3>2
      <3> QED BY <2>2, <3>1, <3>2
    <2>7. Before(requestTimes, arrived, Due(thr))'
      BY <2>0, <2>1, <2>2, <2>4 DEF Before, m
    <2>8. Gone(requestTimes, arrived, Due(thr))'
      BY <2>0, <2>1, <2>2, <2>5 DEF Gone, m
    <2> QED BY <2>0, <2>1, <2>2, <2>6, <2>7, <2>8 DEF Arrivals
  \* The others record no stamp and let nothing arrive.
  <1>6. ASSUME NEW do \in Operation, Begin(thr, do) PROVE Arrivals(thr)'
    <2>1. /\ call[thr] = Null /\ call'[thr] = [do |-> do, stage |-> "wait"]
          /\ UNCHANGED <<requestTimes, arrived, pc, now, steady>>
      BY <1>0, <1>6 DEF Begin, limiter, vars
    <2>2. Due(thr) = 0 /\ Due(thr)' = 0 /\ pc[thr] # "sleeping"
      BY <2>1 DEF Due, At, Arrivals
    <2> QED BY <1>q, <2>1, <2>2
  <1>7. ASSUME Returns(thr) \/ Throws(thr) PROVE Arrivals(thr)'
    <2>1. /\ call'[thr] = Null /\ ~At(thr, "wait")
          /\ UNCHANGED <<requestTimes, arrived, pc, now, steady>>
      BY <1>0, <1>7 DEF Returns, Throws, Ends, limiter, vars, At
    <2>2. Due(thr)' <= Due(thr) /\ pc[thr] # "sleeping"
      BY <2>1 DEF Due, At, Arrivals
    <2> QED BY <1>q, <2>1, <2>2
  <1>8. ASSUME NEW from \in {"create", "read"}, NEW stage \in {"connect", "answered"},
               At(thr, from), call' = [call EXCEPT ![thr].stage = stage],
               from = "create" <=> stage = "connect",
               UNCHANGED <<requestTimes, arrived, pc, now, steady>>
        PROVE  Arrivals(thr)'
    <2>1. At(thr, stage)' /\ call'[thr].stage = stage
      BY <1>8, <1>c DEF At
    <2>2. Due(thr)' <= Due(thr) /\ pc[thr] # "sleeping"
      BY <1>8, <2>1 DEF Due, At, Arrivals
    <2> QED BY <1>q, <1>8, <2>2
  <1>9. ASSUME CreateRequest(thr) PROVE Arrivals(thr)'
    BY <1>8, <1>9 DEF CreateRequest, limiter, vars
  <1>10. ASSUME Performs(thr) \/ Refuses(thr) PROVE Arrivals(thr)'
    <2>1. /\ At(thr, "read") /\ call' = [call EXCEPT ![thr].stage = "answered"]
          /\ UNCHANGED <<requestTimes, arrived, pc, now, steady>>
      BY <1>10 DEF Performs, Refuses, Answers, limiter, vars
    <2> QED BY <1>8, <2>1
  <1>11. ASSUME UNCHANGED <<requestTimes, arrived, pc, now, call>>, steady' \in {steady, steady + 1}
         PROVE  Arrivals(thr)'
    <2>1. Due(thr)' = Due(thr) /\ (At(thr, "wait") => At(thr, "wait")')
      BY <1>11 DEF Due, At
    <2> QED BY <1>d, <1>q, <1>11, <2>1 DEF Arrivals
  <1>12. CASE (\E k \in ApiKeys : SetCredentials(k)) \/ StreamExpires \/ UNCHANGED calls
    BY <1>11, <1>12 DEF SetCredentials, StreamExpires, calls, private, limiter, vars
  <1>13. CASE (Tick \/ ClockSet) /\ UNCHANGED private
    BY <1>11, <1>13 DEF Tick, ClockSet, private
  <1> QED BY <1>4, <1>5, <1>6, <1>7, <1>9, <1>10, <1>12, <1>13 DEF CallsNext

LEMMA SingleArrivals ==
  ASSUME NEW thr, Threads = {thr}
  PROVE  CallsSpec => [](~adjusted => Arrivals(thr))
  <1>1. CallsInit => Arrivals(thr)
    BY DEF CallsInit, Init, Arrivals, Before, Gone
  <1>2. ASSUME CallsTypeOK, CallsTypeOK', SteadyInv, ~adjusted => Arrivals(thr), [CallsNext]_calls
        PROVE  ~adjusted' => Arrivals(thr)'
    <2>1. adjusted => adjusted'
      <3>1. [Next]_vars
        BY <1>2, LimiterStep
      <3> QED BY <3>1 DEF Next, WaitReturns, WaitSleeps, WaitWakes, Tick, ClockSet, vars
    <2>2. TypeOK'
      BY <1>2 DEF CallsTypeOK
    <2> QED BY <1>2, <2>1, <2>2, ArrivalsStep DEF SteadyInv
  <1> QED BY <1>1, <1>2, CallsTypeCorrect, CallsKeepLimiter, SingleSteady, PTL DEF CallsSpec

\* At the exchange, too, a window holds at most one request of a single thread over
\* the limit, however long a request is on its way.
THEOREM OneOverArrives ==
  ASSUME NEW thr, Threads = {thr}
  PROVE  CallsSpec => []OneOverAtExchange
  <1>1. ASSUME CallsTypeOK, SteadyInv, ~adjusted => Arrivals(thr) PROVE OneOverAtExchange
    <2> SUFFICES ASSUME ~adjusted
                 PROVE  Cardinality({i \in DOMAIN arrived : steady - arrived[i] < windowSizeMs})
                           <= localLimit + 1
      BY DEF OneOverAtExchange
    <2> DEFINE p == Len(arrived)
               m == Len(requestTimes)
               recent == {i \in DOMAIN arrived : steady - arrived[i] < windowSizeMs}
    <2>0. /\ arrived \in Seq(Nat) /\ requestTimes \in Seq(Nat) /\ p \in Nat /\ m \in Nat
          /\ DOMAIN arrived = 1 .. p /\ pc[thr] \in {"idle", "sleeping"}
          /\ steady \in Nat /\ localLimit \in Nat \ {0} /\ windowSizeMs \in Nat
          /\ \A j \in 1 .. p : arrived[j] \in Nat
          /\ \A i \in 1 .. m : requestTimes[i] \in Nat
      <3>1. /\ arrived \in Seq(Nat) /\ requestTimes \in Seq(Nat)
            /\ steady \in Nat /\ pc[thr] \in {"idle", "sleeping"}
        BY <1>1 DEF CallsTypeOK, TypeOK
      <3> QED BY <3>1, ElementOfSeq, ParameterAssumption
    <2>1. /\ \A i \in 1 .. m : \A j \in 1 .. p :
                j <= p - (m - i + 1 - Due(thr)) => arrived[j] <= requestTimes[i]
          /\ \A j \in 1 .. p :
                j <= p - (m + 1 - Due(thr)) => steady - arrived[j] >= windowSizeMs
          /\ Due(thr) \in {0, 1}
      BY <1>1 DEF Arrivals, Before, Gone, Due
    <2>2. \/ m <= localLimit
          \/ m = localLimit + 1 /\ steady > requestTimes[1] + windowSizeMs
      BY <1>1, <2>0 DEF SteadyInv, SingleInv, Waiting
    <2>3. ASSUME NEW i \in recent, i <= p - (localLimit + 1) PROVE FALSE
      <3>1. i \in 1 .. p /\ steady - arrived[i] < windowSizeMs /\ arrived[i] \in Nat
        BY <2>0
      <3>2. CASE m <= localLimit
        <4>1. i <= p - (m + 1 - Due(thr))
          BY <2>0, <2>1, <2>3, <3>1, <3>2
        <4> QED BY <2>0, <2>1, <3>1, <4>1
      <3>3. CASE m = localLimit + 1 /\ steady > requestTimes[1] + windowSizeMs
        <4>1. 1 \in 1 .. m /\ i <= p - (m - 1 + 1 - Due(thr))
          <5>1. m = localLimit + 1 /\ Due(thr) \in {0, 1} /\ i \in Nat
            BY <2>1, <3>1, <3>3
          <5> HIDE DEF p, m, Due
          <5> QED BY <2>0, <2>3, <5>1
        <4>2. arrived[i] <= requestTimes[1] /\ requestTimes[1] \in Nat
          BY <2>0, <2>1, <3>1, <4>1
        <4> QED BY <2>0, <3>1, <3>3, <4>2
      <3> QED BY <2>2, <3>2, <3>3
    <2>4. recent \in SUBSET (1 .. p) /\ \A i \in recent : i > p - (localLimit + 1)
      BY <2>0, <2>3
    <2>5. p \in Nat /\ localLimit + 1 \in Nat
      BY <2>0
    <2>6. Cardinality(recent) <= localLimit + 1
      <3> HIDE DEF recent, p
      <3> QED BY <2>4, <2>5, CountWindow
    <2> QED BY <2>6
  <1> QED BY <1>1, CallsTypeCorrect, CallsKeepLimiter, SingleSteady, SingleArrivals, PTL

\* The stamp of a request that is about to be written is from after wait().
Fresh(t) ==
    /\ At(t, "create") \/ At(t, "connect") => Len(released) > 0
    /\ At(t, "connect") /\ request[t].apiKey # Null =>
          /\ request[t].parameters.timestamp \in Nat
          /\ request[t].parameters.timestamp >= released[Len(released)]

LEMMA FreshStep ==
  ASSUME NEW thr, Threads = {thr}, CallsTypeOK, SteadyInv, ~adjusted, Fresh(thr),
         [CallsNext]_calls
  PROVE  Fresh(thr)'
  <1>0. /\ call \in [Threads -> Call \cup {Null}] /\ thr \in Threads
        /\ released \in Seq(Nat) /\ steady \in Nat /\ system_clock = steady
        /\ Len(released) \in Nat /\ Len(released) > 0 => released[Len(released)] <= steady
    BY DEF CallsTypeOK, TypeOK, SteadyInv, SingleInv, Ages, system_clock
  <1>1. ASSUME ~At(thr, "create")', ~At(thr, "connect")' PROVE Fresh(thr)'
    BY <1>1 DEF Fresh
  <1>2. ASSUME NEW stage \in {"create", "connect", "read", "answered"},
               call[thr] # Null, call' = [call EXCEPT ![thr].stage = stage]
        PROVE  call'[thr] # Null /\ call'[thr].stage = stage
    BY <1>0, <1>2, StageChanges
  <1>3. ASSUME Wait(thr) PROVE Fresh(thr)'
    <2>1. CASE call' = call
      BY <1>1, <1>3, <2>1 DEF Wait, At
    <2>2. CASE /\ WaitReturns(thr) \/ WaitWakes(thr)
               /\ call' = [call EXCEPT ![thr].stage = "create"]
      <3>1. released' = Append(released, steady)
        BY <2>2 DEF WaitReturns, WaitWakes, Record
      <3>2. Len(released') > 0
        BY <1>0, <3>1
      <3>3. ~At(thr, "connect")'
        BY <1>2, <1>3, <2>2 DEF Wait, At
      <3> QED BY <3>2, <3>3 DEF Fresh
    <2> QED BY <1>3, <2>1, <2>2 DEF Wait
  <1>4. ASSUME CreateRequest(thr) PROVE Fresh(thr)'
    <2>1. At(thr, "create") /\ released' = released /\ Len(released) > 0
      BY <1>4 DEF CreateRequest, limiter, vars, Fresh
    <2>2. request'[thr].apiKey # Null => request'[thr].parameters.timestamp = steady
      <3> DEFINE parameters == [key |-> call[thr].do.key, timestamp |-> Null]
      <3>1. Sign(parameters).parameters.timestamp = system_clock
        BY DEF Sign
      <3>2. request'[thr] = IF call[thr].do.op = "public"
              THEN [apiKey |-> Null, parameters |-> parameters, signature |-> Null]
              ELSE Sign(parameters)
        BY <1>4 DEF CreateRequest, CallsTypeOK
      <3> QED BY <1>0, <3>1, <3>2
    <2> QED BY <1>0, <2>1, <2>2 DEF Fresh
  <1>5. ASSUME NEW do \in Operation, Begin(thr, do) PROVE Fresh(thr)'
    BY <1>0, <1>1, <1>5 DEF Begin, At
  <1>6. ASSUME Returns(thr) \/ Throws(thr) PROVE Fresh(thr)'
    BY <1>0, <1>1, <1>6 DEF Returns, Throws, Ends, At
  <1>7. ASSUME Write(thr) PROVE Fresh(thr)'
    BY <1>1, <1>2, <1>7 DEF Write, At
  <1>8. ASSUME Performs(thr) \/ Refuses(thr) PROVE Fresh(thr)'
    <2>1. call[thr] # Null /\ call' = [call EXCEPT ![thr].stage = "answered"]
      BY <1>8 DEF Performs, Refuses, Answers, At
    <2> QED BY <1>1, <1>2, <2>1 DEF At
  <1>9. ASSUME UNCHANGED <<call, request, released>> PROVE Fresh(thr)'
    BY <1>9 DEF Fresh, At
  <1>10. CASE (\E k \in ApiKeys : SetCredentials(k)) \/ StreamExpires \/ UNCHANGED calls
    BY <1>9, <1>10 DEF SetCredentials, StreamExpires, calls, private, limiter, vars
  <1>11. CASE (Tick \/ ClockSet) /\ UNCHANGED private
    BY <1>9, <1>11 DEF Tick, ClockSet, private
  <1> QED BY <1>3, <1>4, <1>5, <1>6, <1>7, <1>8, <1>10, <1>11 DEF CallsNext

\* However long a single thread waits, its request is stamped after the limiter let it go.
THEOREM StampedAfterWait ==
  ASSUME NEW thr, Threads = {thr}
  PROVE  CallsSpec => []FreshWhenSent
  <1>1. CallsInit => Fresh(thr)
    BY DEF CallsInit, Fresh, At
  <1>2. ASSUME CallsTypeOK, SteadyInv, ~adjusted => Fresh(thr), [CallsNext]_calls
        PROVE  ~adjusted' => Fresh(thr)'
    <2>1. adjusted => adjusted'
      <3>1. [Next]_vars
        BY <1>2, LimiterStep
      <3> QED BY <3>1 DEF Next, WaitReturns, WaitSleeps, WaitWakes, Tick, ClockSet, vars
    <2> QED BY <1>2, <2>1, FreshStep
  <1>3. (~adjusted => Fresh(thr)) => FreshWhenSent
    BY DEF Fresh, FreshWhenSent
  <1> QED BY <1>1, <1>2, <1>3, CallsTypeCorrect, CallsKeepLimiter, SingleSteady, PTL
          DEF CallsSpec
=============================================================================

--------------------------- MODULE FundingHistory ---------------------------
(***************************************************************************)
(* getHistoricalFundingRates() of the futures connector: numbered pages of *)
(* funding rates, newest first, are fetched until the range is covered,    *)
(* filtered, and sorted.  A rate is its settlement time.                   *)
(*                                                                         *)
(* The exchange is external.  It numbers its pages from the newest rate at *)
(* the moment of each request, so that a settlement during the download    *)
(* moves every later page.                                                 *)
(*                                                                         *)
(* Connector_proofs extends this module together with Orders, hence the    *)
(* names that say whose initial states and steps are meant.                *)
(***************************************************************************)
EXTENDS Integers, Sequences, FiniteSets, SortedSets

CONSTANTS
    SettleTimes,      \* settlement times, past and to come
    pageSize,         \* 1000 in the code
    Ranges,           \* the ranges asked for: <<start, end>>
    Known,            \* how many settlements there may be at the start
    MaxSettled        \* bound: how many there are at the end

ASSUME RatesAssumption ==
    /\ SettleTimes \subseteq Nat /\ IsFiniteSet(SettleTimes)
    /\ pageSize \in Nat \ {0} /\ Ranges \subseteq Nat \X Nat
    /\ MaxSettled \in 0 .. Cardinality(SettleTimes) /\ Known \subseteq 0 .. MaxSettled

VARIABLES
    settled,              \* how many settlements there have been
    startTime, endTime,   \* the range
    pageNum,              \* the page to ask for
    resultList,           \* the page just fetched
    totalPage,            \* as that answer had it
    retVal,               \* what will be returned
    stage,                \* "request", "page", "done", "thrown"
    knownThen             \* history: `settled' at the first request

ratesVars == <<settled, startTime, endTime, pageNum, resultList, totalPage, retVal, stage, knownThen>>

Rates == Sorted(SettleTimes)

\* The rates there are after so many settlements.
RatesOf(known) == {Rates[i] : i \in 1 .. known}

RatesTypeOK ==
    /\ settled \in 0 .. MaxSettled /\ knownThen \in 0 .. settled
    /\ startTime \in Nat /\ endTime \in Nat
    /\ pageNum \in 1 .. (MaxSettled \div pageSize) + 1
    /\ totalPage \in Nat
    /\ resultList \in Seq(SettleTimes) /\ Len(resultList) <= pageSize
    /\ retVal \in Seq(SettleTimes)
    /\ stage \in {"request", "page", "done", "thrown"}

RatesInit ==
    /\ settled \in Known
    /\ \E range \in Ranges : startTime = range[1] /\ endTime = range[2]
    /\ pageNum = 1 /\ totalPage = 0
    /\ resultList = <<>> /\ retVal = <<>>
    /\ stage = "request"
    /\ knownThen = 0

\* The exchange's page n after so many settlements, newest first.
Page(known, n) ==
    LET newest == known - (n - 1) * pageSize
        length == IF newest <= 0 THEN 0 ELSE IF newest < pageSize THEN newest ELSE pageSize
    IN  [i \in 1 .. length |-> Rates[newest + 1 - i]]

Pages(known) == (known + pageSize - 1) \div pageSize

\* rateLimiter.wait(), the request, and its answer.
Fetch ==
    /\ stage = "request"
    /\ resultList' = Page(settled, pageNum)
    /\ totalPage' = Pages(settled)
    /\ knownThen' = IF pageNum = 1 THEN settled ELSE knownThen
    /\ stage' = "page"
    /\ UNCHANGED <<settled, startTime, endTime, pageNum, retVal>>

\* Mutant: the end of the range decides.
BeforeStart_End == resultList # <<>> /\ resultList[Len(resultList)] < endTime

\* The oldest rate of the page is from before the start.
BeforeStart == resultList # <<>> /\ resultList[Len(resultList)] < startTime

\* Mutant: the page after the last one is asked for, and once more.
IsLast_Greater == pageNum > totalPage + 1

IsLast == pageNum >= totalPage \/ resultList = <<>>

InRange(t) == startTime <= t /\ t <= endTime

\* What the page has of the range, in the order of the page.
Selected ==
    LET kept == Sorted({i \in DOMAIN resultList : InRange(resultList[i])})
    IN  [k \in DOMAIN kept |-> resultList[kept[k]]]

PageNext ==
    /\ stage = "page" /\ ~IsLast /\ ~BeforeStart
    /\ retVal' = retVal \o Selected
    /\ pageNum' = pageNum + 1
    /\ stage' = "request"
    /\ UNCHANGED <<settled, startTime, endTime, resultList, totalPage, knownThen>>

\* Mutant: the rates are returned as they came.
InOrder_Not(rates) == rates

\* How many of the rates are no later than t.
UpTo(rates, t) == Cardinality({i \in DOMAIN rates : rates[i] <= t})

\* std::ranges::sort by settlement time: in the k-th place is the earliest time that
\* k rates are no later than.
InOrder(rates) ==
    [k \in DOMAIN rates |->
        CHOOSE t \in Elements(rates) :
            UpTo(rates, t) >= k /\ \A u \in Elements(rates) : UpTo(rates, u) >= k => t <= u]

\* Mutant: the last page is appended where the loop ends, and again after the loop.
PageLast_Twice ==
    /\ stage = "page" /\ (IsLast \/ BeforeStart)
    /\ retVal' = InOrder(retVal \o Selected \o Selected)
    /\ stage' = "done"
    /\ UNCHANGED <<settled, startTime, endTime, pageNum, resultList, totalPage, knownThen>>

PageLast ==
    /\ stage = "page" /\ (IsLast \/ BeforeStart)
    /\ retVal' = InOrder(retVal \o Selected)
    /\ stage' = "done"
    /\ UNCHANGED <<settled, startTime, endTime, pageNum, resultList, totalPage, knownThen>>

\* A request fails or its answer is an error: what was accumulated is lost.
Throws ==
    /\ stage = "request"
    /\ stage' = "thrown" /\ retVal' = <<>>
    /\ UNCHANGED <<settled, startTime, endTime, pageNum, resultList, totalPage, knownThen>>

\* Funding is settled on the exchange.
Settle ==
    /\ settled < MaxSettled
    /\ settled' = settled + 1
    /\ UNCHANGED <<startTime, endTime, pageNum, resultList, totalPage, retVal, stage, knownThen>>

RatesNext == Fetch \/ PageNext \/ PageLast \/ Throws \/ Settle

RatesSpec == RatesInit /\ [][RatesNext]_ratesVars

-----------------------------------------------------------------------------
(* Properties.                                                             *)

\* Every rate of the range that was known when the download began is returned,
\* however many are settled while it goes on.
NothingLost ==
    stage = "done" => \A t \in RatesOf(knownThen) : InRange(t) => t \in Elements(retVal)

\* What is returned is ascending, in the range, and known to the exchange.
SortedInRange ==
    stage = "done" =>
        /\ \A i, j \in DOMAIN retVal : i < j => retVal[i] <= retVal[j]
        /\ \A t \in Elements(retVal) : t \in RatesOf(settled) /\ InRange(t)

\* A settlement moves one rate to the next page: there are no more repetitions in
\* the result than there were settlements during the download.
FewRepeated ==
    stage = "done" => Len(retVal) - Cardinality(Elements(retVal)) <= settled - knownThen
=============================================================================

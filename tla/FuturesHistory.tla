--------------------------- MODULE FuturesHistory ---------------------------
(***************************************************************************)
(* getHistoricalPrices() of the futures REST client, called through the    *)
(* connector's getHistoricalCandles(): candles are fetched page by page,   *)
(* backwards from the end of the range, while the exchange trades on.      *)
(*                                                                         *)
(* Times of the range and of requests are in seconds, a candle is its open *)
(* time in milliseconds.  The exchange is external: it answers with the    *)
(* newest PageLimit candles of the range, oldest first, as the comments of *)
(* the loop say.                                                           *)
(***************************************************************************)
EXTENDS SortedSets

CONSTANTS
    Traded,           \* the open times, in seconds, for which there are candles
    IntervalS,        \* length of a candle, in seconds
    Ranges,           \* the ranges asked for: <<start, end>> in milliseconds
    PageLimit,        \* the most candles in one answer
    Now,              \* when the download may begin, in seconds
    MaxNow            \* bound: when it has ended

ASSUME ConstantAssumption ==
    /\ IntervalS \in Nat \ {0, 1} /\ PageLimit \in Nat \ {0} /\ MaxNow \in Nat
    /\ Traded \subseteq Nat /\ Now \subseteq 0 .. MaxNow
    /\ \A t, u \in Traded : t < u => u >= t + IntervalS
    /\ Ranges \subseteq Nat \X Nat

VARIABLES
    now,              \* the exchange's clock, in seconds
    startTime,        \* the range, in seconds
    endTime,
    currentEndTime,   \* the end of the next request
    candles,          \* the page just fetched
    retVal,           \* what will be returned
    pc,               \* "begin", "request", "loop", "done", "thrown"
    askedAt,          \* history: when the first page was fetched
    written           \* history: what the writer was given, oldest first

vars == <<now, startTime, endTime, currentEndTime, candles, retVal, pc, askedAt, written>>

Ms(t) == t * 1000

TypeOK ==
    /\ now \in 0 .. MaxNow
    /\ startTime \in Nat /\ endTime \in Nat /\ currentEndTime \in -1 .. endTime
    /\ candles \in Seq(Nat) /\ retVal \in Seq(Nat) /\ written \in Seq(Nat)
    /\ pc \in {"begin", "request", "loop", "done", "thrown"}
    /\ askedAt \in 0 .. MaxNow

\* What the exchange has of a range at a time, and its answer to a request.
Between(from, to, time) == {Ms(t) : t \in {u \in Traded : from <= u /\ u <= to /\ u <= time}}

Answer(from, to) == Sorted(Newest(Between(from, to, now), PageLimit))

Init ==
    /\ now \in Now
    /\ \E range \in Ranges : startTime = range[1] \div 1000 /\ endTime = range[2] \div 1000
    /\ currentEndTime = endTime
    /\ candles = <<>> /\ retVal = <<>> /\ written = <<>>
    /\ pc = "begin"
    /\ askedAt = 0

\* Mutant: a range of less than an interval is not asked for.
Asks_WholeInterval(end) == startTime + IntervalS < end

\* Whether there is a request before the loop's next turn.
Asks(end) == startTime < end

NextStep(end) == IF Asks(end) THEN "request" ELSE "loop"

Begin ==
    /\ pc = "begin"
    /\ pc' = NextStep(currentEndTime)
    /\ UNCHANGED <<now, startTime, endTime, currentEndTime, candles, retVal, askedAt, written>>

\* rateLimiter.wait(), the request, and its answer.
Fetch ==
    /\ pc = "request"
    /\ candles' = Answer(startTime, currentEndTime)
    /\ askedAt' = IF written = <<>> THEN now ELSE askedAt
    /\ pc' = "loop"
    /\ UNCHANGED <<now, startTime, endTime, currentEndTime, retVal, written>>

\* Mutant: the milliseconds are not converted.
EndBefore_Ms(oldest) == oldest - 1

EndBefore(oldest) == oldest \div 1000 - 1

Accumulated == candles \o retVal

\* One turn of the loop, up to the next request.
Batch ==
    /\ pc = "loop" /\ candles # <<>>
    /\ written' = candles \o written
    /\ retVal' = Accumulated
    /\ currentEndTime' = EndBefore(Head(candles))
    /\ candles' = <<>>
    /\ pc' = NextStep(currentEndTime')
    /\ UNCHANGED <<now, startTime, endTime, askedAt>>

WithoutNewest(list) == IF list = <<>> THEN <<>> ELSE SubSeq(list, 1, Len(list) - 1)

\* Mutant: the newest candle is kept.
Finish_Keeps ==
    /\ pc = "loop" /\ candles = <<>>
    /\ pc' = "done"
    /\ UNCHANGED <<now, startTime, endTime, currentEndTime, candles, retVal, askedAt, written>>

\* Mutant: the loop goes on until the range is covered.
Finish_ByRange ==
    /\ pc = "loop" /\ candles = <<>>
    /\ retVal' = WithoutNewest(retVal)
    /\ pc' = IF Asks(currentEndTime) THEN "request" ELSE "done"
    /\ UNCHANGED <<now, startTime, endTime, currentEndTime, candles, askedAt, written>>

\* The newest candle is removed.
Finish ==
    /\ pc = "loop" /\ candles = <<>>
    /\ retVal' = WithoutNewest(retVal)
    /\ pc' = "done"
    /\ UNCHANGED <<now, startTime, endTime, currentEndTime, candles, askedAt, written>>

\* The request fails, its answer is an error, or the writer throws: the exception
\* leaves the function and what was accumulated is lost.
Throws ==
    /\ pc = "request" \/ (pc = "loop" /\ candles # <<>>)
    /\ pc' = "thrown" /\ retVal' = <<>> /\ candles' = <<>>
    /\ UNCHANGED <<now, startTime, endTime, currentEndTime, askedAt, written>>

\* Time passes on the exchange, also while the client waits for its limiter.
Tick ==
    /\ now < MaxNow
    /\ now' = now + 1
    /\ UNCHANGED <<startTime, endTime, currentEndTime, candles, retVal, pc, askedAt, written>>

Step == Begin \/ Fetch \/ Batch \/ Finish \/ Throws

Next == Step \/ Tick

Spec == Init /\ [][Next]_vars

\* The calling thread runs on; requests are answered or fail.
LiveSpec == Spec /\ WF_vars(Step)

-----------------------------------------------------------------------------
(* Properties.                                                             *)

Wanted == Between(startTime, endTime, askedAt)

Closed(c) == c + Ms(IntervalS) <= Ms(askedAt)

Download == INSTANCE BackwardDownload WITH
    market  <- Wanted,
    gapless <- TRUE,
    saved   <- written,
    status  <- IF pc \in {"done", "thrown"} THEN pc ELSE "running"

\* At any time, and after an exception too, the pages given to the writer are the
\* newest candles of the range without a hole, a repetition or a foreign candle:
\* a writer that saved them can go on from the oldest.
GrowsBackward == Download!Spec

\* A finished download has every closed candle of the range and no other but the
\* newest, which it leaves out, although pages are fetched at different times.
Complete ==
    pc = "done" =>
        \/ retVal = <<>> /\ Cardinality(Wanted) <= 1
        \/ Wanted # {} /\ retVal = WithoutNewest(Sorted(Wanted))

\* Nothing is returned that had not closed when the download began.
OnlyClosed == pc = "done" => \A i \in DOMAIN retVal : Closed(retVal[i])

\* The loop ends: each page ends before the one before it.
Terminates == <>(pc \in {"done", "thrown"})
=============================================================================

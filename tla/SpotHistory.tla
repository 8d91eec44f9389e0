---------------------------- MODULE SpotHistory ----------------------------
(***************************************************************************)
(* getHistoricalPrices() of the spot REST client: candles are fetched page *)
(* by page, backwards, each request naming both ends of its page.  All     *)
(* times are in milliseconds; a candle is its open time.                   *)
(*                                                                         *)
(* The exchange is external.  Which candles it sends when a request spans  *)
(* more than `limit' of them is not in the repository; a comment in the    *)
(* function says that it counts from startTime forward.  A behaviour is of *)
(* one reading, `fromStart', and of one market's trading, `traded'.        *)
(***************************************************************************)
EXTENDS SortedSets

CONSTANTS
    Markets,          \* per market: the open times for which there are candles
    Readings,         \* the values of fromStart looked at
    intervalMs,       \* length of a candle
    limit,            \* the most candles in one answer
    Ranges,           \* the ranges asked for: <<start, end>>
    now               \* the exchange's clock at the download

ASSUME ConstantAssumption ==
    /\ intervalMs \in Nat \ {0} /\ limit \in Nat \ {0} /\ now \in Nat
    /\ Markets \subseteq SUBSET Nat /\ Ranges \subseteq Nat \X Nat /\ Readings \subseteq BOOLEAN
    /\ \A market \in Markets : \A t, u \in market : t < u => u >= t + intervalMs

VARIABLES
    traded,               \* the open times for which there are candles
    fromStart,            \* TRUE: an answer has the oldest of its span, FALSE: the newest
    startTime, endTime,   \* the range
    batchStartTime,       \* the start of the next request
    currentEndTime,       \* its end
    candles,              \* the page just fetched
    retVal,               \* what will be returned
    pc,                   \* "begin", "request", "loop", "done", "thrown"
    written               \* history: what the writer was given, oldest first

given == <<traded, fromStart, startTime, endTime>>
vars == <<given, batchStartTime, currentEndTime, candles, retVal, pc, written>>

TypeOK ==
    /\ traded \in Markets /\ fromStart \in Readings
    /\ startTime \in Nat /\ endTime \in Nat
    /\ batchStartTime \in Nat /\ currentEndTime \in Int /\ currentEndTime <= endTime
    /\ candles \in Seq(Nat) /\ retVal \in Seq(Nat) /\ written \in Seq(Nat)
    /\ pc \in {"begin", "request", "loop", "done", "thrown"}

Between(from, to) == {t \in traded : from <= t /\ t <= to /\ t <= now}

\* A request whose start is 0 names none, and is answered with the newest.
Answer(from, to) == Sorted(IF from > 0 /\ fromStart THEN Oldest(Between(from, to), limit)
                                                    ELSE Newest(Between(from, to), limit))

Init ==
    /\ traded \in Markets /\ fromStart \in Readings
    /\ \E range \in Ranges : startTime = range[1] /\ endTime = range[2]
    /\ batchStartTime = 0
    /\ currentEndTime = endTime
    /\ candles = <<>> /\ retVal = <<>> /\ written = <<>>
    /\ pc = "begin"

\* Mutant: a range that is one candle long is not asked for.
Asks_Strict(end) == startTime < end

Asks(end) == startTime <= end

\* A long range is first asked for without its start, for its newest candles.
FirstStart ==
    IF currentEndTime - startTime > limit * intervalMs THEN 0 ELSE startTime

Begin ==
    /\ pc = "begin"
    /\ batchStartTime' = IF Asks(currentEndTime) THEN FirstStart ELSE batchStartTime
    /\ pc' = IF Asks(currentEndTime) THEN "request" ELSE "loop"
    /\ UNCHANGED <<given, currentEndTime, candles, retVal, written>>

\* rateLimiter.wait(), the request, and its answer.
Fetch ==
    /\ pc = "request"
    /\ candles' = Answer(batchStartTime, currentEndTime)
    /\ pc' = "loop"
    /\ UNCHANGED <<given, batchStartTime, currentEndTime, retVal, written>>

Accumulated == candles \o retVal

\* Mutant: the next page ends with the oldest candle of this one.
EndBefore_Same(oldest) == oldest

EndBefore(oldest) == oldest - intervalMs

BatchStart(end) == LET s == end - limit * intervalMs
                   IN  IF startTime > s THEN startTime ELSE s

\* One turn of the loop, up to the next request.
Batch ==
    /\ pc = "loop" /\ candles # <<>>
    /\ written' = candles \o written
    /\ retVal' = Accumulated
    /\ currentEndTime' = EndBefore(Head(candles))
    /\ candles' = <<>>
    /\ batchStartTime' = IF Asks(currentEndTime') THEN BatchStart(currentEndTime')
                                                  ELSE batchStartTime
    /\ pc' = IF Asks(currentEndTime') THEN "request" ELSE "loop"
    /\ UNCHANGED given

\* Mutant: the loop goes on until the range is covered.
Finish_ByRange ==
    /\ pc = "loop" /\ candles = <<>>
    /\ pc' = IF Asks(currentEndTime) THEN "request" ELSE "done"
    /\ UNCHANGED <<given, batchStartTime, currentEndTime, candles, retVal, written>>

\* Nothing is removed.
Finish ==
    /\ pc = "loop" /\ candles = <<>>
    /\ pc' = "done"
    /\ UNCHANGED <<given, batchStartTime, currentEndTime, candles, retVal, written>>

\* The request fails, its answer is an error, or the writer throws.
Throws ==
    /\ pc = "request" \/ (pc = "loop" /\ candles # <<>>)
    /\ pc' = "thrown" /\ retVal' = <<>> /\ candles' = <<>>
    /\ UNCHANGED <<given, batchStartTime, currentEndTime, written>>

Next == Begin \/ Fetch \/ Batch \/ Finish \/ Throws

Spec == Init /\ [][Next]_vars

\* The calling thread runs on; requests are answered or fail.
LiveSpec == Spec /\ WF_vars(Next)

-----------------------------------------------------------------------------
(* Properties.                                                             *)

Wanted == Between(startTime, endTime)

\* The market trades in every interval, and the range has passed.
Plain ==
    /\ endTime <= now
    /\ \A t \in traded : t + intervalMs <= now => t + intervalMs \in traded

\* The candles up to the end of the range.  (The first page of a long range may reach
\* back before its start.)
Download == INSTANCE BackwardDownload WITH
    market  <- Between(0, endTime),
    gapless <- ~fromStart,
    saved   <- written,
    status  <- IF pc \in {"done", "thrown"} THEN pc ELSE "running"

\* The pages follow each other from new to old and never overlap, whichever end of a
\* span the exchange counts from; and if it sends the newest candles, they leave no
\* hole between the oldest candle so far and the end of the range, however sparse the
\* trading is and wherever the range ends.
GrowsBackward == Download!Spec

\* A request spans one candle more than an answer holds.  The newest is left out if the
\* exchange counts from startTime forward; the one before it is not.
Covered(c) ==
    \/ c \in Elements(retVal)
    \/ fromStart /\ c - intervalMs \in Elements(retVal)

\* In the plain case a finished download has no candle from outside the range, in the
\* result or in what the writer had, and every closed candle of the range; or, if the
\* exchange counts from startTime forward, never misses two in a row, whatever the pages.
Complete ==
    Plain /\ pc = "done" =>
        /\ written = retVal /\ Elements(retVal) \subseteq Wanted
        /\ \A c \in Wanted : c + intervalMs <= now => Covered(c)

\* The loop ends: each page ends before the one before it.
Terminates == <>(pc \in {"done", "thrown"})

-----------------------------------------------------------------------------
(* What the documentation says and the code does not do.                   *)

\* The pages leave no hole, also if an answer has the oldest candles of its span.
Unbroken == Download!NoHole(written, Between(0, endTime))

\* Nothing from outside the range is given to the writer.
WithinRange == \A c \in Elements(written) : startTime <= c /\ c <= endTime

\* No candle is returned that has not closed.
OnlyClosed == pc = "done" => \A i \in DOMAIN retVal : retVal[i] + intervalMs <= now
=============================================================================

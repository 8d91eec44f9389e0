----------------------------- MODULE MCStreams -----------------------------
(* A small instance of Streams: two tickers, requests of one method for different *)
(* symbols, and two threads, the one that runs and the one before it.             *)
EXTENDS Streams

CONSTANTS t1, t2, ticker, btc, eth

TwoThreads == {t1, t2}

TwoStreams == {[method |-> ticker, symbol |-> btc], [method |-> ticker, symbol |-> eth]}

\* A session gets one request for each.
OneEach == [r \in TwoStreams |-> 1]
=============================================================================

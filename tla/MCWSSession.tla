---------------------------- MODULE MCWSSession ----------------------------
(* Small instances of WSSession for TLC. *)
EXTENDS WSSession

CONSTANTS ticker, kline, btc, eth, latin1

Req(m, s) == [method |-> m, symbol |-> s]

\* A request, and one whose symbol is not valid UTF-8.
Ticker == {Req(ticker, btc)}
TickerAndBad == Ticker \cup {Req(ticker, latin1)}

\* Requests of one method.
Tickers == {Req(ticker, btc), Req(ticker, eth)}

\* Two candle streams of one symbol, which differ in the interval alone.
Klines == {[method |-> kline, symbol |-> btc, interval |-> i] : i \in {"Min1", "Min60"}}

\* Two methods, two symbols, and one that cannot be serialised.
Topics == {Req(ticker, btc), Req(kline, btc)}
TopicsAndBad == Topics \cup {Req(ticker, latin1)}
=============================================================================

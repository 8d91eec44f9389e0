--------------------------- MODULE MCStreamManager ---------------------------
(* StreamManager with two pairs and one interval.  One reader is enough: readers *)
(* change nothing but their own counters, so they cannot disturb each other.    *)
EXTENDS StreamManager

CONSTANTS ETH_USDT, BTC_USDT, Min1, r1
=============================================================================

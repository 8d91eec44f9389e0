---------------------------- MODULE MCSpotHistory ----------------------------
(* Candles of two milliseconds, pages of three, and ranges of every alignment, *)
(* of up to seven pages, which may end after the exchange's clock.             *)
EXTENDS SpotHistory

Dense      == {2 * i : i \in 0 .. 12}
Sparse     == {0, 2, 6, 14, 16, 18, 24}
MCMarkets  == {Dense, Sparse}
MCRanges   == (0 .. 20) \X ((8 .. 21) \cup {28, 40})
=============================================================================

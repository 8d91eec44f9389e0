--------------------------- MODULE MCFuturesHistory ---------------------------
(* Candles of two seconds with a hole; pages of two; ranges of every alignment. *)
EXTENDS FuturesHistory

MCTraded == {2, 4, 6, 10, 12, 14}
MCRanges == ({0, 1500, 2000, 3000, 5999, 6000} \X {0, 6000, 7500, 9000, 12000, 20000})
MCNow    == 9 .. 13
=============================================================================

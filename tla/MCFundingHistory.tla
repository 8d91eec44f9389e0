--------------------------- MODULE MCFundingHistory ---------------------------
(* Up to seven settlements in pages of two, three of them during the download. *)
EXTENDS FundingHistory

MCSettleTimes == {10, 20, 30, 40, 50, 60, 70}
MCRanges == {0, 10, 25, 30, 45, 70} \X {5, 20, 40, 55, 70}
=============================================================================
